---- MODULE Spec2Model ----
\* quick_notes: id generation (note.rs), area moves and the retention sweep
\* (lib.rs), modelled as state machines.
\*
\* Ids are modelled as the strings the code builds, one base-62 digit value
\* (0..61) per character.  The alphabet "0-9A-Za-z" is in ascending byte
\* order, so digit order is byte order.
EXTENDS Integers, Sequences, FiniteSets, TLC

VARIABLES
    \* ---- generator process (note.rs) ----
    idState,     \* IdState singleton: [last_ts, counter]
    gpc,         \* position of the single-threaded caller: "idle" | "loop"
    greserved,   \* the caller's `reserved` set during a call
    gdir,        \* ids that have a file in `dir`
    issued,      \* history: ids returned so far, in call order
    inow,        \* history: for each id returned, the clock reading of its pass
    cands,       \* history: [id, now] candidates built by the current call
    \* ---- threads calling the generator (note.rs, the ID_STATE mutex) ----
    mutex,       \* 0 = free, else the thread holding the lock
    tpc,         \* per thread: "idle" | "wait" | "read" | "write"
    tts,         \* per thread: the `ts` local of the running iteration
    treserved,   \* per thread: its `reserved` set
    tissued,     \* history: set of [thread, n, id] results
    tcalls,      \* per thread: calls completed
    \* ---- note store (lib.rs) ----
    active,      \* root/<id>.md        : id -> file content
    trash,       \* root/trash/<id>.md  : id -> file content
    archive,     \* root/archive/<id>.md: id -> file content
    ev,          \* history: the last command, its inputs and results
    origin,      \* history: Active content a Trash/Archive file was moved from
    mv,          \* a move in progress between its two file-system steps
    sw,          \* history: the inputs of the last sweep that recorded them
    fx,          \* a function applied on its own, or a command that waits
                 \* for its editor or its picker: [op, done, in, out]
    migrated     \* the batches under dir/migrated, oldest first: id -> file

genVars   == <<idState, gpc, greserved, gdir, issued, inow, cands>>
thrVars   == <<mutex, tpc, tts, treserved, tissued, tcalls>>
storeVars == <<active, trash, archive, ev, origin, mv, sw, fx, migrated>>
vars      == <<idState, gpc, greserved, gdir, issued, inow, cands,
               mutex, tpc, tts, treserved, tissued, tcalls,
               active, trash, archive, ev, origin, mv, sw, fx, migrated>>

\* ------------------------------------------------------------------
\* note.rs: base-62 encoding
\* ------------------------------------------------------------------
ID_TS_WIDTH == 9
Base == 62

RECURSIVE encode_digits(_)
encode_digits(n) ==
    IF n = 0 THEN <<>> ELSE Append(encode_digits(n \div Base), n % Base)

\* encode_base62: most significant digit first, "0" for zero
encode_base62(num) == IF num = 0 THEN <<0>> ELSE encode_digits(num)

Zeros(k) == [i \in 1..k |-> 0]

\* encode_base62_width: left-pad with '0' up to width, never truncate
encode_base62_width(num, width) ==
    LET base == encode_base62(num)
    IN  IF Len(base) >= width THEN base
        ELSE Zeros(width - Len(base)) \o base

Max0(x) == IF x < 0 THEN 0 ELSE x

\* u32::saturating_add(1); the counter stays far below u32::MAX, where
\* the addition would saturate
SatInc(c) == c + 1

\* byte-string order on ids (Rust's `<` on String)
RECURSIVE LexLess(_, _)
LexLess(a, b) ==
    IF b = <<>> THEN FALSE
    ELSE IF a = <<>> THEN TRUE
    ELSE IF Head(a) # Head(b) THEN Head(a) < Head(b)
    ELSE LexLess(Tail(a), Tail(b))

\* ------------------------------------------------------------------
\* note.rs: generate_new_id, one loop iteration
\* ------------------------------------------------------------------
IdState0 == [last_ts |-> 0, counter |-> 0]

\* `ts` of an iteration that reads `now`
NextTsWrong(st, now) == now
NextTs(st, now) == IF now <= st.last_ts THEN st.last_ts + 1 ELSE now

\* the update that leaves last_ts as it was
AdvanceKeepsTs(st, ts) == [last_ts |-> st.last_ts, counter |-> 0]

\* the state after the `if ts == guard.last_ts` update
Advance(st, ts) ==
    IF ts = st.last_ts
    THEN [st EXCEPT !.counter = SatInc(st.counter)]
    ELSE [last_ts |-> ts, counter |-> 0]

\* the candidate id built from ts and the counter
MakeId(ts, counter) ==
    LET ts_enc == encode_base62_width(Max0(ts), ID_TS_WIDTH)
    IN  IF counter = 0 THEN ts_enc
        ELSE ts_enc \o encode_base62(counter)

\* the acceptance test of a candidate
Accepts(id, reserved, dirIds) == id \notin reserved /\ id \notin dirIds

\* the rejected branch: reserve the id and bump the counter
Reject(st) == [st EXCEPT !.counter = SatInc(st.counter)]

\* One iteration on state st with clock reading now:
\* [id, st, ok, reserved]; when ok the call returns id.
GenDecide(id, st1, reserved, dirIds) ==
    IF Accepts(id, reserved, dirIds)
    THEN [id |-> id, st |-> st1, ok |-> TRUE, reserved |-> reserved]
    ELSE [id |-> id, st |-> Reject(st1), ok |-> FALSE,
          reserved |-> reserved \cup {id}]

GenCandidate(ts, st1, reserved, dirIds) ==
    GenDecide(MakeId(ts, st1.counter), st1, reserved, dirIds)

GenAt(st, ts, reserved, dirIds) ==
    GenCandidate(ts, Advance(st, ts), reserved, dirIds)

GenIter(st, now, reserved, dirIds) ==
    GenAt(st, NextTs(st, now), reserved, dirIds)

\* ------------------------------------------------------------------
\* The generator called repeatedly by one thread of one process
\* ------------------------------------------------------------------
MaxCalls == 4

\* clock readings (microseconds): several digit positions, and a value
\* before the epoch
ClockValues == {-5, 1, 2, 61, 62, 3843, 3844, 238328}

\* files present in dir, as timestamps of the ids they carry
DirChoices == {{}, {1}, {2, 3}, {62, 63, 3844}}
ReservedChoices == {{}, {1}, {2, 62}}

IdsOf(S) == {MakeId(t, 0) : t \in S}

GenInit ==
    /\ idState = IdState0
    /\ gpc = "idle"
    /\ greserved = {}
    /\ gdir \in {IdsOf(S) : S \in DirChoices}
    /\ issued = <<>>
    /\ inow = <<>>
    /\ cands = <<>>

\* a caller enters generate_new_id with its reserved set
GenCall ==
    /\ gpc = "idle"
    /\ Len(issued) < MaxCalls
    /\ \E R \in ReservedChoices : greserved' = IdsOf(R)
    /\ gpc' = "loop"
    /\ cands' = <<>>
    /\ UNCHANGED <<idState, gdir, issued, inow, thrVars, storeVars>>

\* one pass of the loop body; returns when the candidate is accepted
GenLoopWith(r, now) ==
    /\ idState' = r.st
    /\ greserved' = r.reserved
    /\ cands' = Append(cands, [id |-> r.id, now |-> now])
    /\ IF r.ok
       THEN /\ issued' = Append(issued, r.id)
            /\ gpc' = "idle"
       ELSE /\ UNCHANGED issued
            /\ gpc' = "loop"

GenLoop ==
    /\ gpc = "loop"
    /\ \E now \in ClockValues :
         GenLoopWith(GenIter(idState, now, greserved, gdir), now)
    /\ UNCHANGED <<gdir, inow, thrVars, storeVars>>

IdNext == GenCall \/ GenLoop

\* the same two steps with the clock reading of each returning pass kept
MaxTimedCalls == 2

GenCallTimed ==
    /\ Len(issued) < MaxTimedCalls
    /\ GenCall

GenLoopTimed ==
    /\ gpc = "loop"
    /\ \E now \in ClockValues :
         /\ GenLoopWith(GenIter(idState, now, greserved, gdir), now)
         /\ inow' = IF gpc' = "idle" THEN Append(inow, now) ELSE inow
    /\ UNCHANGED <<gdir, thrVars, storeVars>>

TimedNext == GenCallTimed \/ GenLoopTimed

\* ------------------------------------------------------------------
\* Threads of one process calling generate_new_id; ID_STATE is a Mutex
\* ------------------------------------------------------------------
NThreads == 2
MaxThreadCalls == 2
Threads == 1..NThreads
ThreadClock == {1, 2, 62}

ThrInit ==
    /\ mutex = 0
    /\ tpc = [t \in Threads |-> "idle"]
    /\ tts = [t \in Threads |-> 0]
    /\ treserved = [t \in Threads |-> {}]
    /\ tissued = {}
    /\ tcalls = [t \in Threads |-> 0]

\* state.lock() succeeds only while no thread holds the guard
NoMutex(t) == TRUE
LockAvailable(t) == mutex = 0

\* a thread enters generate_new_id
TCall(t) ==
    /\ tpc[t] = "idle"
    /\ tcalls[t] < MaxThreadCalls
    /\ \E R \in {{}, {1}} : treserved' = [treserved EXCEPT ![t] = IdsOf(R)]
    /\ tpc' = [tpc EXCEPT ![t] = "wait"]
    /\ UNCHANGED <<mutex, tts, tissued, tcalls, idState>>
    /\ UNCHANGED <<gpc, greserved, gdir, issued, inow, cands, storeVars>>

\* let mut guard = state.lock().unwrap()
TLock(t) ==
    /\ tpc[t] = "wait"
    /\ LockAvailable(t)
    /\ mutex' = t
    /\ tpc' = [tpc EXCEPT ![t] = "read"]
    /\ UNCHANGED <<tts, treserved, tissued, tcalls, idState>>
    /\ UNCHANGED <<gpc, greserved, gdir, issued, inow, cands, storeVars>>

\* the clock read and the computation of ts from guard.last_ts
TRead(t) ==
    /\ tpc[t] = "read"
    /\ \E now \in ThreadClock : tts' = [tts EXCEPT ![t] = NextTs(idState, now)]
    /\ tpc' = [tpc EXCEPT ![t] = "write"]
    /\ UNCHANGED <<mutex, treserved, tissued, tcalls, idState>>
    /\ UNCHANGED <<gpc, greserved, gdir, issued, inow, cands, storeVars>>

\* the state update, the candidate and its check; returning drops the guard
TWrite(t) ==
    /\ tpc[t] = "write"
    /\ LET st1 == Advance(idState, tts[t])
           id  == MakeId(tts[t], st1.counter)
       IN  IF Accepts(id, treserved[t], gdir)
           THEN /\ idState' = st1
                /\ tissued' = tissued \cup
                      {[thread |-> t, n |-> tcalls[t] + 1, id |-> id]}
                /\ tcalls' = [tcalls EXCEPT ![t] = @ + 1]
                /\ mutex' = 0
                /\ tpc' = [tpc EXCEPT ![t] = "idle"]
                /\ UNCHANGED treserved
           ELSE /\ idState' = Reject(st1)
                /\ treserved' = [treserved EXCEPT ![t] = @ \cup {id}]
                /\ tpc' = [tpc EXCEPT ![t] = "read"]
                /\ UNCHANGED <<mutex, tissued, tcalls>>
    /\ UNCHANGED <<tts, gpc, greserved, gdir, issued, inow, cands, storeVars>>

ThreadsNext ==
    \/ \E t \in Threads : TCall(t)
    \/ \E t \in Threads : TLock(t)
    \/ \E t \in Threads : TRead(t)
    \/ \E t \in Threads : TWrite(t)

GenIdle ==
    /\ gpc = "idle" /\ greserved = {} /\ issued = <<>> /\ inow = <<>>
    /\ cands = <<>>

StoreIdle ==
    /\ active = <<>> /\ trash = <<>> /\ archive = <<>>
    /\ ev = [cmd |-> "init", out |-> <<>>, swept |-> {}]
    /\ origin = <<>>
    /\ mv = [phase |-> "none", cmd |-> "none", id |-> <<>>, final |-> <<>>,
             conflict |-> FALSE,
             pre |-> [active |-> <<>>, trash |-> <<>>, archive |-> <<>>]]
    /\ sw = [ran |-> FALSE, env |-> [ok |-> FALSE, v |-> 0], now |-> 0,
             before |-> <<>>]
    /\ fx = [op |-> "none", done |-> FALSE, in |-> <<>>, out |-> <<>>]
    /\ migrated = <<>>

\* the generator driven by one caller
IdInit == GenInit /\ ThrInit /\ StoreIdle
SpecId == IdInit /\ [][IdNext]_vars
SpecIdTimed == IdInit /\ [][TimedNext]_vars

\* the same, where a caller inside the loop keeps running
SpecIdLive == IdInit /\ [][IdNext]_vars /\ WF_vars(GenLoop)

\* the generator driven by concurrent threads
ThreadsInit ==
    /\ idState = IdState0 /\ GenIdle /\ ThrInit /\ StoreIdle
    /\ gdir \in {IdsOf(S) : S \in {{}, {2}}}
SpecThreads == ThreadsInit /\ [][ThreadsNext]_vars

\* ------------------------------------------------------------------
\* generate_new_id as one call: the loop run to its return.
\* `reads` are the clock readings of the successive iterations; the last
\* one is read again by every further iteration (a clock that stands still).
\* ------------------------------------------------------------------
RestReads(reads) == IF Len(reads) > 1 THEN Tail(reads) ELSE reads

RECURSIVE gen_loop(_, _, _, _)
RECURSIVE gen_step(_, _, _)

\* the end of an iteration: return, or go round again
gen_step(r, reads, dirIds) ==
    IF r.ok
    THEN [id |-> r.id, st |-> r.st, reads |-> RestReads(reads),
          reserved |-> r.reserved]
    ELSE gen_loop(r.st, RestReads(reads), r.reserved, dirIds)

gen_loop(st, reads, reserved, dirIds) ==
    gen_step(GenIter(st, Head(reads), reserved, dirIds), reads, dirIds)

generate_new_id(dirIds, reserved, st, reads) ==
    gen_loop(st, reads, reserved, dirIds)

\* unique_id: an empty reserved set
unique_id(dirIds, st, reads) == generate_new_id(dirIds, {}, st, reads)

\* ------------------------------------------------------------------
\* note.rs / lib.rs: text, tags, timestamps
\* Text is a sequence of code points.
\* ------------------------------------------------------------------
NL == 10
SP == 32
HASH == 35

\* char::is_whitespace: the code points with the Unicode property White_Space
\* (U+0009..U+000D, U+0020, U+0085, U+00A0, U+1680, U+2000..U+200A, U+2028,
\* U+2029, U+202F, U+205F, U+3000)
WhiteSpace ==
    (9 .. 13) \cup {SP, 133, 160, 5760} \cup (8192 .. 8202)
        \cup {8232, 8233, 8239, 8287, 12288}

RECURSIVE TrimStart(_)
TrimStart(t) ==
    IF t # <<>> /\ Head(t) \in WhiteSpace THEN TrimStart(Tail(t)) ELSE t

RECURSIVE TrimEnd(_)
TrimEnd(t) ==
    IF t # <<>> /\ t[Len(t)] \in WhiteSpace
    THEN TrimEnd(SubSeq(t, 1, Len(t) - 1)) ELSE t

Trim(t) == TrimEnd(TrimStart(t))

\* body.trim_end_matches('\n')
RECURSIVE TrimEndNl(_)
TrimEndNl(t) ==
    IF t # <<>> /\ t[Len(t)] = NL
    THEN TrimEndNl(SubSeq(t, 1, Len(t) - 1)) ELSE t

normalize_tag(t) ==
    LET trimmed == Trim(t)
    IN  IF trimmed = <<>> THEN <<>>
        ELSE IF Head(trimmed) = HASH THEN trimmed
        ELSE <<HASH>> \o trimmed

RECURSIVE MapNormalize(_)
MapNormalize(ts) ==
    IF ts = <<>> THEN <<>>
    ELSE LET n == normalize_tag(Head(ts))
         IN  IF n = <<>> THEN MapNormalize(Tail(ts))
             ELSE <<n>> \o MapNormalize(Tail(ts))

Range(f) == {f[i] : i \in DOMAIN f}

\* tags.sort(); tags.dedup(): the distinct tags in ascending byte order
RECURSIVE SortedSeq(_)
SortedSeq(S) ==
    IF S = {} THEN <<>>
    ELSE LET m == CHOOSE x \in S : \A y \in S : y = x \/ LexLess(x, y)
         IN  <<m>> \o SortedSeq(S \ {m})

SortDedup(ts) == SortedSeq(Range(ts))

\* a note carrying one of the tags
note_has_any_tag(note, tags) ==
    tags = <<>> \/ \E i \in DOMAIN tags : tags[i] \in Range(note.tags)

note_has_tags(note, tags) == \A i \in DOMAIN tags : tags[i] \in Range(note.tags)

\* the -t/--tag arguments of a command: normalized, the empty ones dropped
tag_filters(args) == MapNormalize(args)

\* Option<String>
NoStamp == <<>>
Some(x) == <<x>>

\* A timestamp of a note is the text of its header value, as Note keeps
\* it in created/updated/deleted_at/archived_at: a sequence of code points.
\* A header that is absent leaves the empty text.
EmptyStamp == <<>>

\* ------------------------------------------------------------------
\* note.rs: write_note / parse_note.  A file is the record of what
\* write_note puts in it; the id is the file stem.
\* ------------------------------------------------------------------
COMMA == 44

\* note.tags.join(", ")
RECURSIVE JoinTags(_)
JoinTags(tags) ==
    IF tags = <<>> THEN <<>>
    ELSE IF Len(tags) = 1 THEN Head(tags)
    ELSE Head(tags) \o <<COMMA, SP>> \o JoinTags(Tail(tags))

\* val.split(',')
RECURSIVE SplitComma(_, _)
SplitComma(text, cur) ==
    IF text = <<>> THEN <<cur>>
    ELSE IF Head(text) = COMMA THEN <<cur>> \o SplitComma(Tail(text), <<>>)
    ELSE SplitComma(Tail(text), Append(cur, Head(text)))

\* ---- parse_note on the text of a file ----
\* the header keys, as the text strip_prefix looks for
KeyTitle == <<84, 105, 116, 108, 101, 58>>
KeyCreated == <<67, 114, 101, 97, 116, 101, 100, 58>>
KeyUpdated == <<85, 112, 100, 97, 116, 101, 100, 58>>
KeyDeleted == <<68, 101, 108, 101, 116, 101, 100, 58>>
KeyArchived == <<65, 114, 99, 104, 105, 118, 101, 100, 58>>
KeyTags == <<84, 97, 103, 115, 58>>
\* "\n---\n"
Separator == <<NL, 45, 45, 45, NL>>

\* raw.find("\n---\n"): the first position it starts at, 0 when there is none
find_separator(raw) ==
    IF \E i \in 1..(Len(raw) - 4) : SubSeq(raw, i, i + 4) = Separator
    THEN CHOOSE i \in 1..(Len(raw) - 4) :
            /\ SubSeq(raw, i, i + 4) = Separator
            /\ \A j \in 1..(i - 1) : SubSeq(raw, j, j + 4) # Separator
    ELSE 0

\* a content without separator read as a header with no body
split_all_header(raw) ==
    IF find_separator(raw) = 0 THEN [header |-> raw, body |-> <<>>]
    ELSE [header |-> SubSeq(raw, 1, find_separator(raw) + 4),
          body |-> SubSeq(raw, find_separator(raw) + 5, Len(raw))]

\* raw.split_at(idx + 5), or ("", raw) when there is no separator
split_content(raw) ==
    IF find_separator(raw) = 0 THEN [header |-> <<>>, body |-> raw]
    ELSE [header |-> SubSeq(raw, 1, find_separator(raw) + 4),
          body |-> SubSeq(raw, find_separator(raw) + 5, Len(raw))]

CR == 13

\* the positions a line of the text starts at: the first one and the one
\* after each newline (a newline that ends the text starts no line)
LineStarts(text) ==
    {i \in 1 .. Len(text) : i = 1 \/ text[i - 1] = NL}

\* where the line that starts at s ends: before the next newline, or with
\* the text
LineEnd(text, s) ==
    IF \E i \in s .. Len(text) : text[i] = NL
    THEN (CHOOSE i \in s .. Len(text) :
             text[i] = NL /\ \A j \in s .. (i - 1) : text[j] # NL) - 1
    ELSE Len(text)

\* a line without its line ending: "\n", or "\r\n"
LineFrom(text, s) ==
    IF /\ LineEnd(text, s) < Len(text)
       /\ LineEnd(text, s) >= s
       /\ text[LineEnd(text, s)] = CR
    THEN SubSeq(text, s, LineEnd(text, s) - 1)
    ELSE SubSeq(text, s, LineEnd(text, s))

\* str::lines
lines_of(text) ==
    [k \in 1 .. Cardinality(LineStarts(text)) |->
        LineFrom(text,
                 CHOOSE s \in LineStarts(text) :
                    Cardinality({r \in LineStarts(text) : r < s}) = k - 1)]

starts_with(line, key) ==
    Len(line) >= Len(key) /\ SubSeq(line, 1, Len(key)) = key

\* line.strip_prefix(key), for a line that starts with key
strip_prefix(line, key) == SubSeq(line, Len(key) + 1, Len(line))

\* the Note before any header line is read
EmptyNote(id, body) ==
    [id |-> id, title |-> <<>>, created |-> <<>>, updated |-> <<>>,
     deleted_at |-> NoStamp, archived_at |-> NoStamp, tags |-> <<>>,
     body |-> body]

\* one pass of `for line in header.lines()`
header_line(note, line) ==
    IF starts_with(line, KeyTitle)
    THEN [note EXCEPT !.title = Trim(strip_prefix(line, KeyTitle))]
    ELSE IF starts_with(line, KeyCreated)
    THEN [note EXCEPT !.created = Trim(strip_prefix(line, KeyCreated))]
    ELSE IF starts_with(line, KeyUpdated)
    THEN [note EXCEPT !.updated = Trim(strip_prefix(line, KeyUpdated))]
    ELSE IF starts_with(line, KeyDeleted)
    THEN [note EXCEPT !.deleted_at = Some(Trim(strip_prefix(line, KeyDeleted)))]
    ELSE IF starts_with(line, KeyArchived)
    THEN [note EXCEPT
            !.archived_at = Some(Trim(strip_prefix(line, KeyArchived)))]
    ELSE IF starts_with(line, KeyTags)
    THEN [note EXCEPT
            !.tags = MapNormalize(SplitComma(strip_prefix(line, KeyTags), <<>>))]
    ELSE note

RECURSIVE header_lines(_, _, _)
header_lines(note, ls, k) ==
    IF k > Len(ls) THEN note
    ELSE header_lines(header_line(note, ls[k]), ls, k + 1)

parse_split(id, parts) ==
    header_lines(EmptyNote(id, parts.body), lines_of(parts.header), 1)

\* parse_note, from the text read_to_string returned
parse_note_text(id, raw) == parse_split(id, split_content(raw))


\* ------------------------------------------------------------------
\* note.rs: timestamp_string / parse_timestamp on the text of a stamp.
\* The local offset is UTC.  chrono's calendar: days counted from
\* 1 January 1970, proleptic Gregorian.
\* ------------------------------------------------------------------
MinutesPerHour == 60
HoursPerDay == 24
DayMinutes == HoursPerDay * MinutesPerHour
DIGIT0 == 48
COLON == 58
SLASH == 47
PLUS == 43
MINUS == 45
\* U+2212 MINUS SIGN, which chrono reads as the sign of an offset too
MINUS_SIGN == 8722
\* the years of chrono's NaiveDate: MIN is -262143-01-01, MAX 262142-12-31
MinYear == -262143
MaxYear == 262142
\* Time is counted in clock ticks, TicksPerMinute of them to the minute:
\* TIME_FMT keeps the minute, the clock is finer.
TicksPerMinute == 2
DayTicks == DayMinutes * TicksPerMinute
\* the clock at tick t of day d, days counted from 1 January 1970
AtDay(d, t) == d * DayTicks + t
Digits == DIGIT0 .. (DIGIT0 + 9)

IsLeap(y) == (y % 4 = 0 /\ y % 100 # 0) \/ y % 400 = 0

DaysInMonth(y, m) ==
    IF m = 2 THEN (IF IsLeap(y) THEN 29 ELSE 28)
    ELSE IF m \in {4, 6, 9, 11} THEN 30 ELSE 31

\* NaiveDate::from_ymd: the day number of a date
ShiftedYear(y, m) == IF m <= 2 THEN y - 1 ELSE y
DayOfShiftedYear(m, d) ==
    ((153 * (IF m > 2 THEN m - 3 ELSE m + 9) + 2) \div 5) + d - 1
DayOfEra(yoe, doy) == yoe * 365 + (yoe \div 4) - (yoe \div 100) + doy
DaysFromEra(ys, doy) ==
    (ys \div 400) * 146097 + DayOfEra(ys % 400, doy) - 719468
DaysFromCivil(y, m, d) ==
    DaysFromEra(ShiftedYear(y, m), DayOfShiftedYear(m, d))

\* the first minute of a year
MinuteOfYear(y) == DaysFromCivil(y, 1, 1) * DayMinutes

\* the date of a day number: [y, m, d]
YearOfEra(doe) ==
    (doe - (doe \div 1460) + (doe \div 36524) - (doe \div 146096)) \div 365
DayOfYearIn(doe, yoe) ==
    doe - (365 * yoe + (yoe \div 4) - (yoe \div 100))
MonthOf(mp) == IF mp < 10 THEN mp + 3 ELSE mp - 9
CivilAt(era, yoe, doy, mp) ==
    [y |-> yoe + era * 400 + (IF MonthOf(mp) <= 2 THEN 1 ELSE 0),
     m |-> MonthOf(mp),
     d |-> doy - ((153 * mp + 2) \div 5) + 1]
CivilOfEra(era, doe, yoe) ==
    CivilAt(era, yoe, DayOfYearIn(doe, yoe),
            (5 * DayOfYearIn(doe, yoe) + 2) \div 153)
CivilFromDays(z) ==
    CivilOfEra((z + 719468) \div 146097, (z + 719468) % 146097,
               YearOfEra((z + 719468) % 146097))

\* "Jan" .. "Dec"
MonthNames ==
    << <<74, 97, 110>>, <<70, 101, 98>>, <<77, 97, 114>>, <<65, 112, 114>>,
       <<77, 97, 121>>, <<74, 117, 110>>, <<74, 117, 108>>, <<65, 117, 103>>,
       <<83, 101, 112>>, <<79, 99, 116>>, <<78, 111, 118>>, <<68, 101, 99>> >>

TwoDigits(n) == <<DIGIT0 + ((n \div 10) % 10), DIGIT0 + (n % 10)>>
UtcOffset == <<SP, PLUS, 48, 48, COLON, 48, 48>>

\* format("%d%b%y %H:%M") of the local minute m; "%y" writes the year
\* modulo 100
FormatDate(c) == TwoDigits(c.d) \o MonthNames[c.m] \o TwoDigits(c.y % 100)
FormatLocal(m) ==
    FormatDate(CivilFromDays(m \div DayMinutes))
        \o <<SP>> \o TwoDigits((m % DayMinutes) \div MinutesPerHour)
        \o <<COLON>> \o TwoDigits(m % MinutesPerHour)

\* format(TIME_FMT) of the instant at minute m: "%d%b%y %H:%M %:z"
FormatMinute(m) == FormatLocal(m) \o UtcOffset

\* timestamp_string: Local::now().format(TIME_FMT)
timestamp_string(now) == FormatMinute(now \div TicksPerMinute)

\* ---- chrono::format::parse: the items of a format, one after another.
\* A scan is [ok, rest, f]: whether every item so far matched, the text
\* left, and the values read.
ScanStart(t) == [ok |-> TRUE, rest |-> t, f |-> <<>>]
ScanFail == [ok |-> FALSE, rest |-> <<>>, f |-> <<>>]

IsDigits(t) == \A i \in DOMAIN t : t[i] \in Digits

\* how many of the first `max` characters are digits
RECURSIVE LeadDigits(_, _)
LeadDigits(t, max) ==
    IF max = 0 \/ t = <<>> THEN 0
    ELSE IF Head(t) \in Digits THEN 1 + LeadDigits(Tail(t), max - 1)
    ELSE 0

RECURSIVE NumberOf(_)
NumberOf(t) ==
    IF t = <<>> THEN 0
    ELSE NumberOf(SubSeq(t, 1, Len(t) - 1)) * 10 + (t[Len(t)] - DIGIT0)

Consumed(p, t, k, v) ==
    [ok |-> TRUE, rest |-> SubSeq(t, k + 1, Len(t)), f |-> Append(p.f, v)]

NumberAt(p, t, k) ==
    IF k = 0 THEN ScanFail ELSE Consumed(p, t, k, NumberOf(SubSeq(t, 1, k)))

\* Item::Numeric, unsigned: white space skipped, then 1..width digits
NumberIn(p, t, width) == NumberAt(p, t, LeadDigits(t, width))
ScanNumber(p, width) ==
    IF ~p.ok THEN p ELSE NumberIn(p, TrimStart(p.rest), width)

SignedAt(p, t, k, sign) ==
    IF k = 0 THEN ScanFail
    ELSE Consumed(p, t, k + 1, sign * NumberOf(SubSeq(t, 2, k + 1)))

\* Numeric::Year: a sign lifts the limit of four digits
YearAt(p, t) ==
    IF t # <<>> /\ Head(t) \in {PLUS, MINUS}
    THEN SignedAt(p, t, LeadDigits(Tail(t), Len(t)),
                  IF Head(t) = MINUS THEN -1 ELSE 1)
    ELSE NumberAt(p, t, LeadDigits(t, 4))

ScanYear(p) == IF ~p.ok THEN p ELSE YearAt(p, TrimStart(p.rest))

\* Item::Literal
ScanLiteral(p, c) ==
    IF p.ok /\ p.rest # <<>> /\ Head(p.rest) = c
    THEN [p EXCEPT !.rest = Tail(@)]
    ELSE ScanFail

\* Item::Space: any run of white space, an empty one as well
ScanSpace(p) == IF p.ok THEN [p EXCEPT !.rest = TrimStart(@)] ELSE p

\* ASCII letters compared without case (the `| 32` of scan.rs)
LowerAscii(c) == IF c \in 65 .. 90 THEN c + 32 ELSE c
LowerText(t) == [i \in DOMAIN t |-> LowerAscii(t[i])]

MonthAt(p, t, ms) ==
    IF ms = {} THEN ScanFail ELSE Consumed(p, t, 3, CHOOSE m \in ms : TRUE)

\* scan::short_month0
LowerMonths == [m \in 1 .. 12 |-> LowerText(MonthNames[m])]
MonthsNamed(w) == {m \in 1 .. 12 : LowerMonths[m] = w}
ScanMonth(p) ==
    IF ~p.ok THEN p
    ELSE IF Len(p.rest) < 3 THEN ScanFail
    ELSE MonthAt(p, p.rest, MonthsNamed(LowerText(SubSeq(p.rest, 1, 3))))

\* Fixed::UpperAmPm: "am" gives 0, "pm" 1, in either case
ScanAmPm(p) ==
    IF ~p.ok THEN p
    ELSE IF Len(p.rest) < 2 THEN ScanFail
    ELSE IF LowerText(SubSeq(p.rest, 1, 2)) = <<97, 109>>
    THEN Consumed(p, p.rest, 2, 0)
    ELSE IF LowerText(SubSeq(p.rest, 1, 2)) = <<112, 109>>
    THEN Consumed(p, p.rest, 2, 1)
    ELSE ScanFail

\* scan::colon_or_space
RECURSIVE SkipColons(_)
SkipColons(t) ==
    IF t # <<>> /\ (Head(t) = COLON \/ Head(t) \in WhiteSpace)
    THEN SkipColons(Tail(t)) ELSE t

OffsetMinutesAt(p, sign, hours, u) ==
    IF Len(u) >= 2 /\ u[1] \in DIGIT0 .. (DIGIT0 + 5) /\ u[2] \in Digits
    THEN Consumed(p, u, 2,
             sign * (hours * MinutesPerHour + NumberOf(SubSeq(u, 1, 2))))
    ELSE ScanFail

OffsetAt(p, t) ==
    IF Len(t) >= 3 /\ t[1] \in {PLUS, MINUS, MINUS_SIGN}
                  /\ IsDigits(SubSeq(t, 2, 3))
    THEN OffsetMinutesAt(p, IF t[1] = PLUS THEN 1 ELSE -1,
             NumberOf(SubSeq(t, 2, 3)), SkipColons(SubSeq(t, 4, Len(t))))
    ELSE ScanFail

\* Fixed::TimezoneOffsetColon: the offset in minutes east of UTC
ScanOffset(p) == IF ~p.ok THEN p ELSE OffsetAt(p, TrimStart(p.rest))

\* the first and the last day chrono can name
MinDay == DaysFromCivil(MinYear, 1, 1)
MaxDay == DaysFromCivil(MaxYear, 12, 31)

\* the day the instant falls on in UTC: the local time less the offset
UtcDay(y, m, d, h, mi, off) ==
    DaysFromCivil(y, m, d) + ((h * MinutesPerHour + mi - off) \div DayMinutes)

\* Parsed::to_datetime: the fields name a local date and time, and the
\* instant (local time minus offset) is within chrono's range as well
ValidFields(y, m, d, h, mi, off) ==
    /\ y >= MinYear /\ y <= MaxYear
    /\ m \in 1 .. 12
    /\ d >= 1 /\ d <= DaysInMonth(y, m)
    /\ h < HoursPerDay /\ mi < MinutesPerHour
    /\ off > -DayMinutes /\ off < DayMinutes
    /\ UtcDay(y, m, d, h, mi, off) >= MinDay
    /\ UtcDay(y, m, d, h, mi, off) <= MaxDay

\* the instant is counted in minutes from 1970, which 32-bit integers hold
\* for the years -2100 to 6000; the years chrono accepts beyond them are
\* outside the timestamps enumerated here
InstantOf(y, m, d, h, mi, off) ==
    (DaysFromCivil(y, m, d) * HoursPerDay + h) * MinutesPerHour + mi - off

\* the year of "%y" on its own: 70..99 are 19xx, 00..69 are 20xx
ResolveYear(yy) == IF yy < 70 THEN 2000 + yy ELSE 1900 + yy

\* TIME_FMT "%d%b%y %H:%M %:z": f is <<day, month, yy, hour, minute, offset>>
ScanTimeFmt(t) ==
    ScanOffset(ScanSpace(ScanNumber(ScanLiteral(ScanNumber(ScanSpace(
        ScanNumber(ScanMonth(ScanNumber(ScanStart(t), 2)), 2)), 2),
        COLON), 2)))

TimeFmtOk(p) ==
    /\ p.ok /\ p.rest = <<>>
    /\ ValidFields(ResolveYear(p.f[3]), p.f[2], p.f[1], p.f[4], p.f[5], p.f[6])

TimeFmtMinute(p) ==
    InstantOf(ResolveYear(p.f[3]), p.f[2], p.f[1], p.f[4], p.f[5], p.f[6])

\* LEGACY_TIME_FMT "%m/%d/%Y %I:%M %p %:z":
\* f is <<month, day, year, hour12, minute, pm, offset>>
ScanLegacyFmt(t) ==
    ScanOffset(ScanSpace(ScanAmPm(ScanSpace(ScanNumber(ScanLiteral(
        ScanNumber(ScanSpace(ScanYear(ScanLiteral(ScanNumber(ScanLiteral(
        ScanNumber(ScanStart(t), 2), SLASH), 2), SLASH))), 2),
        COLON), 2)))))

Hour24(h12, pm) == (h12 % 12) + 12 * pm

LegacyFmtOk(p) ==
    /\ p.ok /\ p.rest = <<>>
    /\ p.f[4] \in 1 .. 12
    /\ ValidFields(p.f[3], p.f[1], p.f[2], Hour24(p.f[4], p.f[6]), p.f[5],
                   p.f[7])

LegacyFmtMinute(p) ==
    InstantOf(p.f[3], p.f[1], p.f[2], Hour24(p.f[4], p.f[6]), p.f[5], p.f[7])

\* Option<DateTime<FixedOffset>>: [ok, at, off], the minute of the instant
\* and the offset in minutes the text carries
NoInstant == [ok |-> FALSE, at |-> 0, off |-> 0]
Instant(at, off) == [ok |-> TRUE, at |-> at, off |-> off]

StampOfScans(p, q) ==
    IF TimeFmtOk(p) THEN Instant(TimeFmtMinute(p), p.f[6])
    ELSE IF LegacyFmtOk(q) THEN Instant(LegacyFmtMinute(q), q.f[7])
    ELSE NoInstant

\* DateTime::parse_from_str(ts, TIME_FMT).or_else(LEGACY_TIME_FMT).ok()
StampOf(t) == StampOfScans(ScanTimeFmt(t), ScanLegacyFmt(t))

\* parse_timestamp: whether the text parses, and the first tick of the
\* minute it names.  The year of TIME_FMT is read from two digits, so the
\* text written in 2070 names a minute of 1970.
Parses(s) == StampOf(s).ok
parse_timestamp(s) == StampOf(s).at * TicksPerMinute

\* the text of a file: what format!() in write_note puts together
StampLine(key, stamp) == key \o <<SP>> \o stamp \o <<NL>>

OptionLine(key, opt) ==
    IF opt = NoStamp THEN <<>> ELSE StampLine(key, opt[1])

content_of(file) ==
    KeyTitle \o file.title \o <<NL>>
        \o StampLine(KeyCreated, file.created)
        \o StampLine(KeyUpdated, file.updated)
        \o OptionLine(KeyDeleted, file.deleted)
        \o OptionLine(KeyArchived, file.archived)
        \o KeyTags \o file.tags
        \o Separator
        \o file.body

\* the header lines hold what follows "Key:" (for the timestamps, what
\* follows "Key: "), the body what follows the "---" line
FileOf(note) ==
    [title    |-> <<SP>> \o note.title,
     created  |-> note.created,
     updated  |-> note.updated,
     deleted  |-> note.deleted_at,
     archived |-> note.archived_at,
     tags     |-> IF note.tags = <<>> THEN <<>>
                  ELSE <<SP>> \o JoinTags(note.tags),
     body     |-> TrimEndNl(note.body) \o <<NL>>]

TrimOption(opt) == IF opt = NoStamp THEN NoStamp ELSE Some(Trim(opt[1]))

\* a file whose header values hold no line break has one header line for
\* each key, and parse_note reads every field from its own line, trimmed
header_of(id, file) ==
    [id          |-> id,
     title       |-> Trim(file.title),
     created     |-> Trim(file.created),
     updated     |-> Trim(file.updated),
     deleted_at  |-> TrimOption(file.deleted),
     archived_at |-> TrimOption(file.archived),
     tags        |-> MapNormalize(SplitComma(file.tags, <<>>)),
     body        |-> file.body]

\* a header value holds a line break
HoldsNL(t) == \E k \in 1 .. Len(t) : t[k] = NL
OptionHoldsNL(opt) == IF opt = NoStamp THEN FALSE ELSE HoldsNL(opt[1])
HeaderHoldsNL(file) ==
    IF HoldsNL(file.title) THEN TRUE
    ELSE IF HoldsNL(file.created) THEN TRUE
    ELSE IF HoldsNL(file.updated) THEN TRUE
    ELSE IF OptionHoldsNL(file.deleted) THEN TRUE
    ELSE IF OptionHoldsNL(file.archived) THEN TRUE
    ELSE HoldsNL(file.tags)

\* parse_note: a header value that holds a line break is read as several
\* header lines, so such a file is parsed from its text
parse_note(id, file) ==
    IF HeaderHoldsNL(file)
    THEN parse_note_text(id, content_of(file))
    ELSE header_of(id, file)

\* the directory after fs::write(note_path(dir, note.id), content)
write_note(dir, note) ==
    [i \in DOMAIN dir \cup {note.id} |->
        IF i = note.id THEN FileOf(note) ELSE dir[i]]

\* the directory after fs::remove_file
remove_file(dir, id) == [i \in DOMAIN dir \ {id} |-> dir[i]]

\* the directory after a file with content `file` is renamed onto id
rename_onto(dir, id, file) ==
    [i \in DOMAIN dir \cup {id} |-> IF i = id THEN file ELSE dir[i]]

\* ------------------------------------------------------------------
\* lib.rs: the three areas.  S = [active, trash, archive], each a
\* directory: a function from the ids that have a file to the file.
\* ------------------------------------------------------------------
EmptyDir == <<>>
Ids(dir) == DOMAIN dir

\* a per-id result of a command: the id asked for, what happened, and the
\* id the note has afterwards
Res(req, st, id) == [req |-> req, st |-> st, id |-> id]

\* create_note: the Note value
NewNote(id, title, body, tags, now) ==
    [id |-> id, title |-> title,
     created |-> timestamp_string(now),
     updated |-> timestamp_string(now),
     deleted_at |-> NoStamp, archived_at |-> NoStamp,
     body |-> body,
     tags |-> SortDedup(MapNormalize(tags))]

\* create_note, once unique_id returned g
create_with(S, g, title, body, tags, now) ==
    [S |-> [S EXCEPT !.active =
                 write_note(S.active, NewNote(g.id, title, body, tags, now))],
     id |-> g.id, st |-> g.st, reads |-> g.reads]

create_note(S, title, body, tags, now, st, reads) ==
    create_with(S, unique_id(Ids(S.active), st, reads), title, body, tags, now)

\* quick_add: the body with the text appended on a line of its own
AppendLine(body, text) ==
    (IF body # <<>> /\ body[Len(body)] = NL THEN body ELSE Append(body, NL))
        \o Trim(text) \o <<NL>>

\* the note written anew, as create_note stamps it
AppendedFresh(note, text, now) ==
    [note EXCEPT !.body = AppendLine(note.body, text),
                 !.created = timestamp_string(now),
                 !.updated = timestamp_string(now)]

Appended(note, text, now) ==
    [note EXCEPT !.body = AppendLine(note.body, text),
                 !.updated = timestamp_string(now)]

\* quick_add: a text that trims to nothing is refused before the file is
\* looked for, and an id without a file in Active is not found; both leave
\* the store as it was
quick_add(S, id, text, now) ==
    IF Trim(text) = <<>> THEN S
    ELSE IF id \notin Ids(S.active) THEN S
    ELSE [S EXCEPT !.active =
             write_note(S.active,
                 Appended(parse_note(id, S.active[id]), text, now))]

Touched(note, now) == [note EXCEPT !.updated = timestamp_string(now)]

\* edit_note, one pass of its last loop: `edited` is what the editor left
\* in the file of id
edit_one(S, id, edited, now) ==
    [S EXCEPT !.active = write_note(S.active, Touched(parse_note(id, edited), now))]

\* the `match area` of move_note_with_timestamp
Stamp(note, area, now) ==
    IF area = "trash"
    THEN [note EXCEPT !.deleted_at = Some(timestamp_string(now)),
                      !.archived_at = NoStamp]
    ELSE IF area = "archive"
    THEN [note EXCEPT !.archived_at = Some(timestamp_string(now)),
                      !.deleted_at = NoStamp]
    ELSE [note EXCEPT !.deleted_at = NoStamp, !.archived_at = NoStamp]

\* the source removed where the destination should be written
move_remove_first(S, to, id, now) == [S EXCEPT !.active = remove_file(S.active, id)]

\* move_note_with_timestamp up to and including write_note(&note, to_dir)
move_write(S, to, id, now) ==
    [S EXCEPT ![to] =
        write_note(S[to], Stamp(parse_note(id, S.active[id]), to, now))]

\* move_note_with_timestamp: fs::remove_file(src)
move_remove(S, id) == [S EXCEPT !.active = remove_file(S.active, id)]

move_note_with_timestamp(S, to, id, now) ==
    move_remove(move_write(S, to, id, now), id)

\* trash_retention_days: env is [ok, v], ok when the variable is set and
\* parses as an integer
DefaultRetention == 30
trash_retention_days(env) ==
    IF env.ok /\ env.v >= 0 THEN env.v ELSE DefaultRetention

\* `now_fixed() - chrono::Duration::days(retention)` panics ("`DateTime -
\* Duration` overflowed") when the cutoff lies before chrono's first day; a
\* retention Duration::days itself refuses is larger still
cutoff_overflows(retention, now) == (now \div DayTicks) - retention < MinDay

\* clean_trash panics: a retention of 0 returns before the subtraction
sweep_panics(env, now) ==
    /\ trash_retention_days(env) # 0
    /\ cutoff_overflows(trash_retention_days(env), now)

\* the timestamp clean_trash compares: note.deleted_at.unwrap_or(updated),
\* as parse_note read it
EffectiveOf(note) ==
    IF note.deleted_at # NoStamp THEN note.deleted_at[1] ELSE note.updated
EffectiveTs(file) == EffectiveOf(parse_note(<<>>, file))

\* ts < now - Duration::days(retention), ts and now in ticks.  The days
\* between the two are compared with the retention, so that a retention
\* of any size is compared within 32-bit integers.
before_cutoff(ts, retention, now) ==
    \/ (now - ts) \div DayTicks > retention
    \/ /\ (now - ts) \div DayTicks = retention
       /\ (now - ts) % DayTicks > 0

\* if let Some(ts) = parse_timestamp(ts_str) { if ts < cutoff { .. } }
ExpiredAt(p, retention, now) ==
    p.ok /\ before_cutoff(p.at * TicksPerMinute, retention, now)

Expired(file, retention, now) ==
    ExpiredAt(StampOf(EffectiveTs(file)), retention, now)

\* clean_trash with the retention read from the environment
clean_with(tr, retention, now) ==
    IF retention = 0 THEN tr
    ELSE [i \in {j \in Ids(tr) : ~Expired(tr[j], retention, now)} |-> tr[i]]

\* clean_trash: the trash directory afterwards; a panic comes before the
\* first file is looked at
clean_trash(tr, env, now) ==
    IF sweep_panics(env, now) THEN tr
    ELSE clean_with(tr, trash_retention_days(env), now)

\* the sweep run over Archive as well
sweep_with_archive(S, env, now) ==
    [S EXCEPT !.trash = clean_trash(S.trash, env, now),
              !.archive = clean_trash(S.archive, env, now)]

\* clean_trash(&trash_dir) as the commands call it
sweep(S, env, now) == [S EXCEPT !.trash = clean_trash(S.trash, env, now)]

Cleared(note) == [note EXCEPT !.deleted_at = NoStamp, !.archived_at = NoStamp]

\* the conflict branch writing the note with the stamps of the source file
restore_conflict_stamped(S, from, id, g) ==
    [S |-> [S EXCEPT !.active =
                 write_note(S.active,
                     [parse_note(id, S[from][id]) EXCEPT !.id = g.id])],
     id |-> g.id, conflict |-> TRUE, st |-> g.st, reads |-> g.reads]

\* restore_note, the `dst.exists()` branch up to write_note, once
\* generate_new_id returned g
restore_conflict(S, from, id, g) ==
    [S |-> [S EXCEPT !.active =
                 write_note(S.active,
                     [Cleared(parse_note(id, S[from][id])) EXCEPT !.id = g.id])],
     id |-> g.id, conflict |-> TRUE, st |-> g.st, reads |-> g.reads]

\* restore_note, the other branch up to write_note
restore_plain(S, from, id, st, reads) ==
    [S |-> [S EXCEPT !.active =
                 write_note(S.active, Cleared(parse_note(id, S[from][id])))],
     id |-> id, conflict |-> FALSE, st |-> st, reads |-> reads]

\* restore_note up to and including write_note(&note, to_dir):
\* [S, id, conflict, st, reads]; id is final_id
restore_write(S, from, id, st, reads) ==
    IF id \in Ids(S.active)
    THEN restore_conflict(S, from, id,
             generate_new_id(Ids(S.active), {}, st, reads))
    ELSE restore_plain(S, from, id, st, reads)

\* restore_note after the write: fs::remove_file(src) on the conflict
\* branch, fs::rename(src, &dst) on the other
restore_finish(S, from, id, conflict) ==
    IF conflict
    THEN [S EXCEPT ![from] = remove_file(S[from], id)]
    ELSE [S EXCEPT !.active = rename_onto(S.active, id, S[from][id]),
                   ![from] = remove_file(S[from], id)]

restore_done(w, from, id) ==
    [w EXCEPT !.S = restore_finish(w.S, from, id, w.conflict)]

\* restore_note for an id that has a file in `from`
restore_note(S, from, id, st, reads) ==
    restore_done(restore_write(S, from, id, st, reads), from, id)

\* ---- the per-id loops of the commands ----
RECURSIVE delete_loop(_, _, _, _, _)
delete_loop(ids, filters, S, now, out) ==
    IF ids = <<>> THEN [S |-> S, out |-> out]
    ELSE IF Head(ids) \notin Ids(S.active)
    THEN delete_loop(Tail(ids), filters, S, now,
                     Append(out, Res(Head(ids), "notfound", Head(ids))))
    ELSE IF filters # <<>> /\
            ~note_has_tags(parse_note(Head(ids), S.active[Head(ids)]), filters)
    THEN delete_loop(Tail(ids), filters, S, now,
                     Append(out, Res(Head(ids), "skipped", Head(ids))))
    ELSE delete_loop(Tail(ids), filters,
                     move_note_with_timestamp(S, "trash", Head(ids), now),
                     now, Append(out, Res(Head(ids), "ok", Head(ids))))

RECURSIVE archive_loop(_, _, _, _)
archive_loop(ids, S, now, out) ==
    IF ids = <<>> THEN [S |-> S, out |-> out]
    ELSE IF Head(ids) \notin Ids(S.active)
    THEN archive_loop(Tail(ids), S, now,
                      Append(out, Res(Head(ids), "notfound", Head(ids))))
    ELSE archive_loop(Tail(ids),
                      move_note_with_timestamp(S, "archive", Head(ids), now),
                      now, Append(out, Res(Head(ids), "ok", Head(ids))))

RECURSIVE restore_loop(_, _, _, _, _, _)
RECURSIVE restore_next(_, _, _, _, _)

\* Ok(new_id) of restore_note: report it and go on with the next id
restore_next(ids, from, r, out, req) ==
    restore_loop(ids, from, r.S, r.st, r.reads,
                 Append(out, Res(req, "ok", r.id)))

\* the loop leaving at the first id that is not found
restore_loop_stops(ids, from, S, st, reads, out) ==
    IF ids = <<>> THEN [S |-> S, out |-> out]
    ELSE IF Head(ids) \notin Ids(S[from])
    THEN [S |-> S, out |-> Append(out, Res(Head(ids), "notfound", Head(ids)))]
    ELSE restore_next(Tail(ids), from,
                      restore_note(S, from, Head(ids), st, reads),
                      out, Head(ids))

restore_loop(ids, from, S, st, reads, out) ==
    IF ids = <<>> THEN [S |-> S, out |-> out]
    ELSE IF Head(ids) \notin Ids(S[from])
    THEN restore_loop(Tail(ids), from, S, st, reads,
                      Append(out, Res(Head(ids), "notfound", Head(ids))))
    ELSE restore_next(Tail(ids), from,
                      restore_note(S, from, Head(ids), st, reads),
                      out, Head(ids))

\* ---- the commands; each runs in a fresh process (IdState0) ----
\* delete, delete-all and undelete call clean_trash(&trash_dir)? before
\* their loop: `cl` is the store that call left, sweep(S, env, now)
\* the process ended in the panic of clean_trash: nothing was moved and no
\* id was reported on
Panicked(S) == [S |-> S, out |-> <<Res(<<>>, "panic", <<>>)>>]

delete_notes(S, cl, ids, filters, env, now) ==
    IF sweep_panics(env, now) THEN Panicked(S)
    ELSE delete_loop(ids, tag_filters(filters), cl, now, <<>>)

delete_all_notes(S, cl, env, now) ==
    IF sweep_panics(env, now) THEN Panicked(S)
    ELSE delete_loop(SortedSeq(Ids(S.active)), <<>>, cl, now, <<>>)

archive_notes(S, ids, now) == archive_loop(ids, S, now, <<>>)

\* without an id the command ends on its usage error, before the sweep
undelete_notes(S, cl, ids, env, now, reads) ==
    IF ids = <<>> THEN [S |-> S, out |-> <<>>]
    ELSE IF sweep_panics(env, now) THEN Panicked(S)
    ELSE restore_loop(ids, "trash", cl, IdState0, reads, <<>>)

unarchive_notes(S, ids, reads) ==
    restore_loop(ids, "archive", S, IdState0, reads, <<>>)

\* ---- edit_note around its editor ----
RECURSIVE edit_paths(_, _, _, _, _)
\* the first loop of edit_note: the files handed to the editor, and what
\* is reported for the other ids
edit_paths(ids, filters, S, paths, out) ==
    IF ids = <<>> THEN [paths |-> paths, out |-> out]
    ELSE IF Head(ids) \notin Ids(S.active)
    THEN edit_paths(Tail(ids), filters, S, paths,
                    Append(out, Res(Head(ids), "notfound", Head(ids))))
    ELSE IF filters # <<>> /\
            ~note_has_tags(parse_note(Head(ids), S.active[Head(ids)]), filters)
    THEN edit_paths(Tail(ids), filters, S, paths,
                    Append(out, Res(Head(ids), "skipped", Head(ids))))
    ELSE edit_paths(Tail(ids), filters, S, Append(paths, Head(ids)), out)

RECURSIVE edit_loop(_, _, _, _, _)
\* the loop after the editor has exited: a file that is no longer there
\* ends the command on the error of fs::metadata
edit_loop(ids, filters, S, now, out) ==
    IF ids = <<>> THEN [S |-> S, out |-> out]
    ELSE IF Head(ids) \notin Ids(S.active)
    THEN [S |-> S, out |-> Append(out, Res(Head(ids), "error", Head(ids)))]
    ELSE IF filters # <<>> /\
            ~note_has_tags(parse_note(Head(ids), S.active[Head(ids)]), filters)
    THEN edit_loop(Tail(ids), filters, S, now,
                   Append(out, Res(Head(ids), "skipped", Head(ids))))
    ELSE edit_loop(Tail(ids), filters,
                   edit_one(S, Head(ids), S.active[Head(ids)], now), now,
                   Append(out, Res(Head(ids), "ok", Head(ids))))

\* ---- delete_notes around its picker ----
\* the files listed for the picker: those of Active that carry the filters
delete_listed(S, filters) ==
    {i \in Ids(S.active) :
        IF filters = <<>> THEN TRUE
        ELSE note_has_tags(parse_note(i, S.active[i]), filters)}

\* delete_notes from the picker's answer on: the loop over the ids picked,
\* with no further sweep
delete_picked(S, ids, filters, now) == delete_loop(ids, filters, S, now, <<>>)

\* ---- seed_notes: bulk notes for tests ----
\* the code point of a base-62 digit: ALPHABET of encode_base62
DigitChar(d) ==
    IF d < 10 THEN DIGIT0 + d
    ELSE IF d < 36 THEN 65 + (d - 10) ELSE 97 + (d - 36)

TextOfDigits(ds) == [i \in DOMAIN ds |-> DigitChar(ds[i])]

\* short_timestamp: the clock reading in base 62, as text
short_timestamp(us) == TextOfDigits(encode_base62_width(Max0(us), ID_TS_WIDTH))

\* format!("{n}") of a usize
RECURSIVE DecimalDigits(_)
DecimalDigits(n) ==
    IF n = 0 THEN <<>> ELSE Append(DecimalDigits(n \div 10), DIGIT0 + (n % 10))
Decimal(n) == IF n = 0 THEN <<DIGIT0>> ELSE DecimalDigits(n)

\* "Seed note "
SeedTitle ==
    <<83, 101, 101, 100, 32, 110, 111, 116, 101, 32>>

\* the `base` text of generate_body: "Lorem ipsum ... sit amet nunc. "
LoremBase ==
    <<76, 111, 114, 101, 109, 32, 105, 112, 115, 117, 109, 32, 100, 111,
      108, 111, 114, 32, 115, 105, 116, 32, 97, 109, 101, 116, 44, 32,
      99, 111, 110, 115, 101, 99, 116, 101, 116, 117, 114, 32, 97, 100,
      105, 112, 105, 115, 99, 105, 110, 103, 32, 101, 108, 105, 116, 46,
      32, 80, 114, 111, 105, 110, 32, 97, 108, 105, 113, 117, 101, 116,
      44, 32, 109, 97, 117, 114, 105, 115, 32, 110, 101, 99, 32, 102,
      97, 99, 105, 108, 105, 115, 105, 115, 32, 114, 104, 111, 110, 99,
      117, 115, 44, 32, 110, 105, 115, 108, 32, 106, 117, 115, 116, 111,
      32, 118, 105, 118, 101, 114, 114, 97, 32, 100, 117, 105, 44, 32,
      118, 105, 116, 97, 101, 32, 112, 108, 97, 99, 101, 114, 97, 116,
      32, 109, 101, 116, 117, 115, 32, 101, 114, 97, 116, 32, 115, 105,
      116, 32, 97, 109, 101, 116, 32, 110, 117, 110, 99, 46, 32>>

\* "Seed chunk {seed} idx {n}. "
SeedChunk(seed, n) ==
    <<83, 101, 101, 100, 32, 99, 104, 117, 110, 107, 32>>
        \o Decimal(seed) \o <<32, 105, 100, 120, 32>> \o Decimal(n) \o <<46, SP>>

RECURSIVE body_fill(_, _, _, _)
body_fill(out, len, seed, n) ==
    IF Len(out) >= len THEN out
    ELSE body_fill(out \o LoremBase \o SeedChunk(seed, n), len, seed, n + 1)

\* generate_body: the filler cut to len characters, and a line break
generate_body(len, seed) ==
    SubSeq(body_fill(<<>>, len, seed, 0), 1, len) \o <<NL>>

\* "# Heading "
MarkdownHead ==
    <<35, 32, 72, 101, 97, 100, 105, 110, 103, 32>>

\* the text from the heading to "fn example_"
MarkdownCode ==
    <<10, 10, 35, 35, 32, 83, 117, 98, 104, 101, 97, 100, 105, 110, 103,
      10, 10, 45, 32, 98, 117, 108, 108, 101, 116, 32, 111, 110, 101,
      10, 45, 32, 98, 117, 108, 108, 101, 116, 32, 116, 119, 111, 10,
      45, 32, 98, 117, 108, 108, 101, 116, 32, 116, 104, 114, 101, 101,
      10, 10, 49, 46, 32, 111, 114, 100, 101, 114, 101, 100, 32, 111,
      110, 101, 10, 50, 46, 32, 111, 114, 100, 101, 114, 101, 100, 32,
      116, 119, 111, 10, 10, 42, 42, 98, 111, 108, 100, 32, 116, 101,
      120, 116, 42, 42, 32, 97, 110, 100, 32, 95, 105, 116, 97, 108,
      105, 99, 32, 116, 101, 120, 116, 95, 32, 119, 105, 116, 104, 32,
      96, 105, 110, 108, 105, 110, 101, 32, 99, 111, 100, 101, 96, 46,
      10, 10, 96, 96, 96, 114, 117, 115, 116, 10, 102, 110, 32, 101,
      120, 97, 109, 112, 108, 101, 95>>

\* the text from "()" to "> Blockquote example "
MarkdownQuote ==
    <<40, 41, 32, 123, 32, 112, 114, 105, 110, 116, 108, 110, 33, 40,
      34, 104, 101, 108, 108, 111, 34, 41, 59, 32, 125, 10, 96, 96, 96,
      10, 10, 62, 32, 66, 108, 111, 99, 107, 113, 117, 111, 116, 101,
      32, 101, 120, 97, 109, 112, 108, 101, 32>>

\* the text from the quote to "| Seed    | "
MarkdownTable ==
    <<10, 10, 45, 45, 45, 10, 10, 76, 105, 110, 107, 58, 32, 91, 101,
      120, 97, 109, 112, 108, 101, 93, 40, 104, 116, 116, 112, 115, 58,
      47, 47, 101, 120, 97, 109, 112, 108, 101, 46, 99, 111, 109, 41,
      10, 10, 124, 32, 70, 101, 97, 116, 117, 114, 101, 32, 124, 32, 86,
      97, 108, 117, 101, 32, 124, 10, 124, 45, 45, 45, 45, 45, 45, 45,
      45, 45, 124, 45, 45, 45, 45, 45, 45, 45, 124, 10, 124, 32, 83,
      101, 101, 100, 32, 32, 32, 32, 124, 32>>

\* " |" and the last row of the table
MarkdownEnd ==
    <<32, 124, 10, 124, 32, 84, 121, 112, 101, 32, 32, 32, 32, 124, 32,
      77, 97, 114, 107, 100, 111, 119, 110, 32, 124, 10>>

\* generate_markdown_body: a fixed markdown text naming the seed
generate_markdown_body(seed) ==
    MarkdownHead \o Decimal(seed) \o MarkdownCode \o Decimal(seed)
        \o MarkdownQuote \o Decimal(seed) \o MarkdownTable \o Decimal(seed)
        \o MarkdownEnd

seed_body(chars, markdown, i) ==
    IF markdown THEN generate_markdown_body(i) ELSE generate_body(chars, i)

RECURSIVE seed_loop(_, _, _, _, _, _, _, _)
RECURSIVE seed_next(_, _, _, _, _, _, _, _)

\* the note of one pass is written: go on with the generator state and the
\* clock readings the pass left
seed_next(i, count, r, chars, tags, markdown, now, out) ==
    seed_loop(i + 1, count, [S |-> r.S, st |-> r.st, reads |-> r.reads],
              chars, tags, markdown, now, Append(out, Res(r.id, "ok", r.id)))

\* the loop of seed_notes from pass i on; g is [S, st, reads].  The title
\* takes one clock reading (short_timestamp); create_note goes on with the
\* readings after it
seed_loop(i, count, g, chars, tags, markdown, now, out) ==
    IF i >= count THEN [S |-> g.S, out |-> out]
    ELSE seed_next(i, count,
             create_note(g.S, SeedTitle \o short_timestamp(Head(g.reads)),
                         seed_body(chars, markdown, i), tags, now,
                         g.st, RestReads(g.reads)),
             chars, tags, markdown, now, out)

\* seed_notes: count notes made by one process
seed_notes(S, count, chars, tags, markdown, now, reads) ==
    seed_loop(0, count, [S |-> S, st |-> IdState0, reads |-> reads],
              chars, tag_filters(tags), markdown, now, <<>>)

\* ------------------------------------------------------------------
\* The store driven by commands, one process per command.
\* A profile P names the inputs a specification enumerates.
\* ------------------------------------------------------------------
Store == [active |-> active, trash |-> trash, archive |-> archive]

NoteCount == Cardinality(Ids(active)) + Cardinality(Ids(trash))
             + Cardinality(Ids(archive))

EnvUnset == [ok |-> FALSE, v |-> 0]
EnvDays(n) == [ok |-> TRUE, v |-> n]

Titles == {<<116>>}
AddTexts == {<<SP, 121>>}
\* what the editor leaves in a file: the file as it was, or a new body
EditedFiles(file) == {file, [file EXCEPT !.body = <<120, NL, 121, NL, NL>>]}

MissingId == MakeId(0, 0)
KnownIds == Ids(active) \cup Ids(trash) \cup Ids(archive) \cup {MissingId}
IdLists(P) == UNION {[1..n -> KnownIds] : n \in P.lens}

\* what a command did: its name, the per-id results, the ids the sweep
\* removed, the ids it was asked for and the tag filters it ran under
Ev(cmd, out, swept) ==
    [cmd |-> cmd, out |-> out, swept |-> swept,
     asked |-> [k \in 1..Len(out) |-> out[k].req],
     filters |-> <<>>]
EmptyStore == [active |-> EmptyDir, trash |-> EmptyDir, archive |-> EmptyDir]
NoMove == [phase |-> "none", cmd |-> "none", id |-> <<>>, final |-> <<>>,
           conflict |-> FALSE, pre |-> EmptyStore]
NoSweep ==
    [ran |-> FALSE, env |-> EnvUnset, now |-> 0, before |-> EmptyDir,
     panic |-> FALSE]
NoFx == [op |-> "none", done |-> FALSE, in |-> <<>>, out |-> <<>>]

\* ids the sweep of a command removed
Swept(S, cl) == Ids(S.trash) \ Ids(cl.trash)

\* origin, kept for the files Trash holds: a file moved by this command
\* comes from Active as it was before the command, and `at` is the minute
\* of the clock the command stamped it with
OriginAfter(S, R, now) ==
    [i \in Ids(R.S.trash) |->
        IF \E k \in DOMAIN R.out : R.out[k].req = i /\ R.out[k].st = "ok"
        THEN [file |-> S.active[i], at |-> Some(now \div TicksPerMinute)]
        ELSE origin[i]]

OriginKept(tr) == [i \in Ids(tr) |-> origin[i]]

SetStore(S) ==
    /\ active' = S.active
    /\ trash' = S.trash
    /\ archive' = S.archive

\* the command ends: the store it leaves and what it reported
Commit(cmd, R, swept, ids) ==
    /\ SetStore(R.S)
    /\ ev' = [Ev(cmd, R.out, swept) EXCEPT !.asked = ids]

CommitOne(cmd, S, id, final) ==
    /\ SetStore(S)
    /\ ev' = Ev(cmd, <<Res(id, "ok", final)>>, {})

NotFound(cmd, id) ==
    /\ UNCHANGED <<active, trash, archive>>
    /\ ev' = Ev(cmd, <<Res(id, "notfound", id)>>, {})

\* the command ends on an error before it reports on any id
Refused(cmd, ids) ==
    /\ UNCHANGED <<active, trash, archive>>
    /\ ev' = [Ev(cmd, <<>>, {}) EXCEPT !.asked = ids]

StoreInit ==
    /\ active = EmptyDir /\ trash = EmptyDir /\ archive = EmptyDir
    /\ ev = Ev("init", <<>>, {})
    /\ origin = <<>>
    /\ mv = NoMove
    /\ sw = NoSweep
    /\ fx = NoFx
    /\ migrated = <<>>

NewDone(r) == CommitOne("new", r.S, r.id, r.id)

New(P) ==
    /\ NoteCount < P.maxNotes
    /\ \E title \in P.titles, body \in P.bodies, tags \in P.tags,
          now \in P.nows, reads \in P.reads :
         NewDone(create_note(Store, title, body, tags, now, IdState0, reads))
    /\ UNCHANGED <<origin, mv, sw, fx, migrated, genVars, thrVars>>

Add(P) ==
    /\ \E id \in KnownIds, text \in P.texts, now \in P.nows :
         IF Trim(text) = <<>> THEN Refused("add", <<id>>)
         ELSE IF id \in Ids(active)
         THEN /\ Len(active[id].body) <= P.maxBody
              /\ CommitOne("add", quick_add(Store, id, text, now), id, id)
         ELSE NotFound("add", id)
    /\ UNCHANGED <<origin, mv, sw, fx, migrated, genVars, thrVars>>

\* no command is waiting for an editor or a picker
NoSession == fx.op = "none"

EditSession(paths, filters) ==
    [op |-> "edit", done |-> FALSE,
     in |-> [paths |-> paths, filters |-> filters],
     out |-> <<>>]

EditOpened(ids, filters, r) ==
    /\ UNCHANGED <<active, trash, archive>>
    /\ ev' = [Ev("edit", r.out, {}) EXCEPT !.asked = ids, !.filters = filters]
    /\ fx' = IF r.paths = <<>> THEN fx ELSE EditSession(r.paths, filters)

\* `qn edit <id>...` up to the start of $EDITOR; with no file to open the
\* command ends here
EditOpen(P) ==
    /\ NoSession
    /\ \E ids \in IdLists(P), filters \in P.filters :
         EditOpened(ids, tag_filters(filters),
             edit_paths(ids, tag_filters(filters), Store, <<>>, <<>>))
    /\ UNCHANGED <<origin, mv, sw, migrated, genVars, thrVars>>

\* the editor saves into one of the files it was given, while edit_note
\* waits in Command::status().  What an editor writes is an input: it is
\* taken to save into a file that is still there, the file as it finds it
\* or with a new body.
EditorSave ==
    /\ fx.op = "edit"
    /\ \E id \in Range(fx.in.paths) \cap Ids(active) :
         \E edited \in EditedFiles(active[id]) :
            /\ active' = [active EXCEPT ![id] = edited]
            /\ ev' = [Ev("editor", <<>>, {}) EXCEPT !.asked = <<id>>]
    /\ UNCHANGED <<trash, archive, origin, mv, sw, fx, migrated,
                   genVars, thrVars>>

EditClosed(r) ==
    /\ SetStore(r.S)
    /\ ev' = [Ev("edit", r.out, {}) EXCEPT !.asked = fx.in.paths,
                                          !.filters = fx.in.filters]

\* the editor has exited: on a non-zero status the command ends, else
\* every file is read again, stamped and written
EditClose(P) ==
    /\ fx.op = "edit"
    /\ \E ok \in BOOLEAN, now \in P.nows :
         IF ok
         THEN EditClosed(edit_loop(fx.in.paths, fx.in.filters, Store, now,
                                   <<>>))
         ELSE Refused("edit", fx.in.paths)
    /\ fx' = NoFx
    /\ UNCHANGED <<origin, mv, sw, migrated, genVars, thrVars>>

DeleteDone(cmd, R, swept, ids, filters, now) ==
    /\ SetStore(R.S)
    /\ ev' = [Ev(cmd, R.out, swept) EXCEPT !.asked = ids, !.filters = filters]
    /\ origin' = OriginAfter(Store, R, now)

\* the command once its sweep has left the store cl
DeleteSwept(P, env, now, cl) ==
    \E ids \in IdLists(P), filters \in P.filters :
        DeleteDone("delete", delete_notes(Store, cl, ids, filters, env, now),
                   Swept(Store, cl), ids, tag_filters(filters), now)

Delete(P) ==
    /\ \E env \in P.envs, now \in P.nows :
         DeleteSwept(P, env, now, sweep(Store, env, now))
    /\ UNCHANGED <<mv, sw, fx, migrated, genVars, thrVars>>

DeleteAllSwept(env, now, cl) ==
    DeleteDone("delete-all", delete_all_notes(Store, cl, env, now),
               Swept(Store, cl), SortedSeq(Ids(cl.active)), <<>>, now)

DeleteAll(P) ==
    /\ \E env \in P.envs, now \in P.nows :
         DeleteAllSwept(env, now, sweep(Store, env, now))
    /\ UNCHANGED <<mv, sw, fx, migrated, genVars, thrVars>>

Archive(P) ==
    /\ \E ids \in IdLists(P), now \in P.nows :
         Commit("archive", archive_notes(Store, ids, now), {}, ids)
    /\ UNCHANGED <<origin, mv, sw, fx, migrated, genVars, thrVars>>

UndeleteDone(R, swept, ids) ==
    /\ Commit("undelete", R, swept, ids)
    /\ origin' = OriginKept(R.S.trash)

UndeleteSwept(P, env, now, cl) ==
    \E ids \in IdLists(P), reads \in P.reads :
        UndeleteDone(undelete_notes(Store, cl, ids, env, now, reads),
                     IF ids = <<>> THEN {} ELSE Swept(Store, cl), ids)

Undelete(P) ==
    /\ \E env \in P.envs, now \in P.nows :
         UndeleteSwept(P, env, now, sweep(Store, env, now))
    /\ UNCHANGED <<mv, sw, fx, migrated, genVars, thrVars>>

Unarchive(P) ==
    /\ \E ids \in IdLists(P), reads \in P.reads :
         Commit("unarchive", unarchive_notes(Store, ids, reads), {}, ids)
    /\ UNCHANGED <<origin, mv, sw, fx, migrated, genVars, thrVars>>

\* what a command that only sweeps reports: nothing, or the panic
SweepOut(S, env, now) ==
    IF sweep_panics(env, now) THEN Panicked(S).out ELSE <<>>

ListDone(S2, swept, out) ==
    /\ SetStore(S2)
    /\ ev' = [Ev("list-deleted", out, swept) EXCEPT !.asked = <<>>]
    /\ origin' = OriginKept(S2.trash)

\* list-deleted: the sweep that runs before the trash is listed
ListSwept(env, now, cl) ==
    ListDone(cl, Swept(Store, cl), SweepOut(Store, env, now))

ListDeleted(P) ==
    /\ \E env \in P.envs, now \in P.nows :
         ListSwept(env, now, sweep(Store, env, now))
    /\ UNCHANGED <<mv, sw, fx, migrated, genVars, thrVars>>

\* `qn delete` without an id is waiting: after its sweep, for the child
\* `fzf --version` of has_fzf (phase "swept"), and after the listing, for
\* has_fzf once more and for the picker (phase "listed")
PickSession(phase, listed, filters, use_fzf) ==
    [op |-> "delete", done |-> FALSE,
     in |-> [phase |-> phase, listed |-> listed, filters |-> filters,
             use_fzf |-> use_fzf],
     out |-> <<>>]

\* Err("Provide ids or install fzf ..") / Err("fzf not available; ..")
NoFzf == <<Res(<<>>, "error", <<>>)>>

DeleteSweepDone(S2, swept, filters, use_fzf, out) ==
    /\ SetStore(S2)
    /\ ev' = [Ev("delete", out, swept) EXCEPT !.asked = <<>>,
                                             !.filters = filters]
    /\ origin' = OriginKept(S2.trash)
    /\ fx' = IF out = <<>> THEN PickSession("swept", {}, filters, use_fzf)
             ELSE fx

DeleteSweepSwept(P, env, now, cl) ==
    \E filters \in P.filters, use_fzf \in BOOLEAN :
        DeleteSweepDone(cl, Swept(Store, cl), tag_filters(filters), use_fzf,
                        SweepOut(Store, env, now))

\* `qn delete` without an id, up to the first has_fzf: the arguments and
\* the sweep.  The command then waits for a child process, and other
\* commands may run before it lists Active
DeleteSweep(P) ==
    /\ NoSession
    /\ \E env \in P.envs, now \in P.nows :
         DeleteSweepSwept(P, env, now, sweep(Store, env, now))
    /\ UNCHANGED <<mv, sw, migrated, genVars, thrVars>>

DeleteListed(in, listed, has_fzf) ==
    /\ UNCHANGED <<active, trash, archive, origin>>
    /\ ev' = [Ev("delete",
                 IF ~in.use_fzf /\ ~has_fzf THEN NoFzf ELSE <<>>, {})
                EXCEPT !.asked = <<>>, !.filters = in.filters]
    /\ fx' = IF (in.use_fzf \/ has_fzf) /\ listed # {}
             THEN PickSession("listed", listed, in.filters, in.use_fzf)
             ELSE NoFx

\* from the answer of has_fzf to the start of the picker: without --fzf and
\* without fzf the command ends in an error; otherwise Active is listed as
\* it is now, and with nothing to list the command ends here
DeleteList(P) ==
    /\ fx.op = "delete" /\ fx.in.phase = "swept"
    /\ \E has_fzf \in BOOLEAN :
         DeleteListed(fx.in, delete_listed(Store, fx.in.filters), has_fzf)
    /\ UNCHANGED <<mv, sw, migrated, genVars, thrVars>>

\* what the picker prints: some of the files listed, or nothing
Picks(P) == {<<>>} \cup UNION {[1..n -> fx.in.listed] : n \in P.lens}

\* fzf is gone when has_fzf is asked the second time: the command ends in
\* an error and nothing is moved
DeleteNoPicker ==
    /\ UNCHANGED <<active, trash, archive, origin>>
    /\ ev' = [Ev("delete", NoFzf, {}) EXCEPT !.asked = <<>>,
                                             !.filters = fx.in.filters]

\* the picker has closed: the ids picked are moved, at the clock value
\* read then
DeletePicked(P) ==
    /\ fx.op = "delete" /\ fx.in.phase = "listed"
    /\ \/ DeleteNoPicker
       \/ \E ids \in Picks(P), now \in P.nows :
            DeleteDone("delete",
                delete_picked(Store, ids, fx.in.filters, now), {}, ids,
                fx.in.filters, now)
    /\ fx' = NoFx
    /\ UNCHANGED <<mv, sw, migrated, genVars, thrVars>>

\* ---- inputs of `qn seed` ----
MaxSeedCount == 2
MaxSeedChars == 3
SeedCounts == 0 .. MaxSeedCount
\* `--chars 3`, and `--markdown`
SeedKinds ==
    {[chars |-> MaxSeedChars, markdown |-> FALSE],
     [chars |-> 0, markdown |-> TRUE]}

\* `qn seed <count> [--chars N] [-t tag] [--markdown]`
Seed(P) ==
    /\ \E count \in SeedCounts, kind \in SeedKinds, tags \in P.tags,
          now \in P.nows, reads \in P.reads :
         /\ NoteCount + count <= P.maxNotes
         /\ Commit("seed",
                seed_notes(Store, count, kind.chars, tags, kind.markdown,
                           now, reads),
                {}, <<>>)
    /\ UNCHANGED <<origin, mv, sw, fx, migrated, genVars, thrVars>>

GenQuiet == idState = IdState0 /\ GenIdle /\ gdir = {}

\* ---- the store under every command ----
MaxNotes == 1
MaxBody == 2

MainP ==
    [maxNotes |-> MaxNotes, maxBody |-> MaxBody,
     titles |-> Titles, texts |-> AddTexts,
     nows |-> {AtDay(0, 1), AtDay(2, 0)}, reads |-> {<<1>>, <<1, 3>>},
     envs |-> {EnvUnset, EnvDays(1)},
     bodies |-> {<<120>>},
     tags |-> {<<>>, << <<98>>, <<HASH, 97>>, <<98>> >>},
     filters |-> {<<>>, << <<HASH, 97>> >>},
     lens |-> {1, 2}]

\* the editor is started on one id
MainEditP == [MainP EXCEPT !.lens = {1}]

Next ==
    \/ New(MainP) \/ Add(MainP)
    \/ EditOpen(MainEditP) \/ EditorSave \/ EditClose(MainEditP)
    \/ Delete(MainP) \/ DeleteAll(MainP) \/ Archive(MainP)
    \/ Undelete(MainP) \/ Unarchive(MainP) \/ ListDeleted(MainP)

Init == GenQuiet /\ ThrInit /\ StoreInit
Spec == Init /\ [][Next]_vars

\* ---- id conflicts between areas: several notes, one clock value ----
MaxConflictNotes == 3

ConflictP ==
    [maxNotes |-> MaxConflictNotes, maxBody |-> MaxBody,
     titles |-> Titles, texts |-> AddTexts,
     nows |-> {1}, reads |-> {<<1>>},
     envs |-> {EnvUnset},
     bodies |-> {<<120>>, <<121>>},
     tags |-> {<<>>},
     filters |-> {<<>>},
     lens |-> {1}]

ConflictNext ==
    \/ New(ConflictP) \/ Delete(ConflictP) \/ Archive(ConflictP)
    \/ Undelete(ConflictP) \/ Unarchive(ConflictP)

SpecConflict == Init /\ [][ConflictNext]_vars

\* ---- restores onto an id Active holds: fewer notes, the same commands ----
MaxRestoreNotes == 2

RestoreP == [ConflictP EXCEPT !.maxNotes = MaxRestoreNotes]

RestoreNext ==
    \/ New(RestoreP) \/ Delete(RestoreP) \/ Archive(RestoreP)
    \/ Undelete(RestoreP) \/ Unarchive(RestoreP)

SpecRestore == Init /\ [][RestoreNext]_vars

\* ---- lists of ids, some of them missing: the same commands again,
\* among notes `qn seed` made under a clock that stands still or advances
\* between its readings ----
BatchP == [RestoreP EXCEPT !.lens = {2}]
SeedP == [BatchP EXCEPT !.reads = {<<1>>, <<1, 3, 5, 7>>}]

BatchNext ==
    \/ New(BatchP) \/ Delete(BatchP) \/ Archive(BatchP)
    \/ Undelete(BatchP) \/ Unarchive(BatchP) \/ Seed(SeedP)

SpecBatch == Init /\ [][BatchNext]_vars

\* ---- add and edit among other notes: created early, changed later ----
MaxEditNotes == 2

\* "01/01/1970 12:05 AM +00:00", minute 5 in LEGACY_TIME_FMT
LegacyStamp ==
    <<48, 49, 47, 48, 49, 47, 49, 57, 55, 48, 32, 49,
      50, 58, 48, 53, 32, 65, 77, 32, 43, 48, 48, 58, 48, 48>>

\* titles and tags as typed: "t" with a tab after it, and a title that
\* holds a line break followed by a Deleted line in the legacy format; the
\* tags "b" and "#a", and a tag that holds a line break ("#a\nTitle: z")
EditTitles ==
    {<<116, 9>>, <<97, NL>> \o KeyDeleted \o <<SP>> \o LegacyStamp}
EditTags ==
    {<< <<98>>, <<HASH, 97>> >>,
     << <<HASH, 97, NL>> \o KeyTitle \o <<SP, 122>> >>}
\* the text added: " y" with a tab after it, and a blank
EditTexts == {<<SP, 121, 9>>, <<SP>>}

EditNewP ==
    [ConflictP EXCEPT !.maxNotes = MaxEditNotes, !.bodies = {<<120>>},
                      !.titles = EditTitles, !.tags = EditTags,
                      !.texts = EditTexts]
EditP == [EditNewP EXCEPT !.nows = {4}]

EditNext ==
    \/ New(EditNewP) \/ Add(EditP)
    \/ EditOpen(EditP) \/ EditorSave \/ EditClose(EditP)
    \/ Delete(EditNewP) \/ Archive(EditNewP)

SpecEdit == Init /\ [][EditNext]_vars

\* ---- old notes in every area, and commands that sweep run later ----
MaxKeepNotes == 2

KeepP == [ConflictP EXCEPT !.maxNotes = MaxKeepNotes, !.bodies = {<<120>>}]
LateP ==
    [KeepP EXCEPT !.nows = {AtDay(4, 0)},
                  !.envs = {EnvUnset, EnvDays(0), EnvDays(1)}]

KeepNext ==
    \/ New(KeepP) \/ Delete(KeepP) \/ Archive(KeepP) \/ Unarchive(KeepP)
    \/ Delete(LateP) \/ DeleteAll(LateP) \/ Undelete(LateP)
    \/ ListDeleted(LateP)
    \/ DeleteSweep(LateP) \/ DeleteList(LateP) \/ DeletePicked(LateP)

SpecKeep == Init /\ [][KeepNext]_vars

\* ---- delete under tag filters: tagged notes, filters as typed ----
MaxFilterNotes == 2

FilterP ==
    [maxNotes |-> MaxFilterNotes, maxBody |-> MaxBody,
     titles |-> Titles, texts |-> AddTexts,
     nows |-> {1}, reads |-> {<<1>>},
     envs |-> {EnvUnset},
     bodies |-> {<<120>>},
     tags |-> {<<>>, << <<HASH, 97>> >>, << <<98>>, <<HASH, 97>> >>,
               << <<98, 9>>, <<9>> >>},
     filters |-> {<<>>, << <<HASH, 97>> >>, << <<97>>, <<SP>>, <<HASH, 98>> >>,
                  << <<9, 98>> >>},
     lens |-> {1, 2}]

FilterNext ==
    \/ New(FilterP) \/ Delete(FilterP)
    \/ DeleteSweep(FilterP) \/ DeleteList(FilterP) \/ DeletePicked(FilterP)

SpecFilter == Init /\ [][FilterNext]_vars

\* ---- the retention sweep on its own, over the trash it may find ----
\* a retention set by hand, and one chrono cannot subtract from the clock
ShortRetention == 1
HugeRetention == 100000000
\* the first year whose two digits TIME_FMT reads as a year of the century
\* before
WrapYear == 2070

SweepIds == {MakeId(1, 0), MakeId(2, 0)}
\* the minutes trash notes were stamped at: the last minute of 1969, the
\* first of 1970, the last before WrapYear and the first of WrapYear
SweepWritten ==
    {-1, 0, MinuteOfYear(WrapYear) - 1, MinuteOfYear(WrapYear)}
\* texts parse_timestamp rejects: the empty text and "x"
SweepUnreadable == {EmptyStamp, <<120>>}
SweepFile(d, u) ==
    [title |-> <<SP, 116>>, created |-> timestamp_string(0), updated |-> u,
     deleted |-> d, archived |-> NoStamp, tags |-> <<>>, body |-> <<120, NL>>]
\* a trash file, and the minute its compared timestamp was written at
\* (none for a text that is no timestamp)
SweepEntry(d, u, at) == [file |-> SweepFile(d, u), at |-> at]
\* notes `qn delete` stamped, notes without a Deleted line, notes whose
\* compared text does not parse (the Updated of the first kind is old),
\* and a Deleted line in the legacy format
SweepEntries ==
    {SweepEntry(Some(FormatMinute(m)), FormatMinute(m), Some(m)) :
        m \in SweepWritten}
    \cup {SweepEntry(NoStamp, FormatMinute(m), Some(m)) : m \in SweepWritten}
    \cup {SweepEntry(Some(t), FormatMinute(0), NoStamp) : t \in SweepUnreadable}
    \cup {SweepEntry(NoStamp, t, NoStamp) : t \in SweepUnreadable}
    \cup {SweepEntry(Some(LegacyStamp), FormatMinute(0), Some(5))}
SweepDirs == UNION {[I -> SweepEntries] : I \in SUBSET SweepIds}
\* the variable unset, not an integer ("x"), negative, or a number of days
SweepEnvs ==
    {EnvUnset, EnvDays(-1), EnvDays(0), EnvDays(ShortRetention),
     EnvDays(HugeRetention)}
\* the clock of a sweep: just after a note was stamped, and a retention
\* later to the tick and one tick on
SweepNowsFrom(b) ==
    {b + 1} \cup {b + r * DayTicks + d :
                    r \in {ShortRetention, DefaultRetention}, d \in {0, 1}}
SweepNows ==
    SweepNowsFrom(0)
        \cup SweepNowsFrom(MinuteOfYear(WrapYear) * TicksPerMinute)

SweepStart(D) ==
    /\ trash = [i \in DOMAIN D |-> D[i].file]
    /\ origin = D

SweepInit ==
    /\ GenQuiet /\ ThrInit
    /\ active = EmptyDir /\ archive = EmptyDir
    /\ \E D \in SweepDirs : SweepStart(D)
    /\ ev = Ev("init", <<>>, {})
    /\ mv = NoMove
    /\ sw = NoSweep
    /\ fx = NoFx
    /\ migrated = <<>>

\* clean_trash run at `now` under `env`
SweepRan(env, now, cl) ==
    /\ trash' = cl.trash
    /\ ev' = [Ev("sweep", SweepOut(Store, env, now), Swept(Store, cl))
                 EXCEPT !.asked = <<>>]
    /\ sw' = [ran |-> TRUE, env |-> env, now |-> now, before |-> trash,
              panic |-> sweep_panics(env, now)]

SweepRun ==
    /\ \E env \in SweepEnvs, now \in SweepNows :
         SweepRan(env, now, sweep(Store, env, now))
    /\ UNCHANGED <<active, archive, origin, mv, fx, migrated, genVars, thrVars>>

SweepNext == SweepRun
SpecSweep == SweepInit /\ [][SweepNext]_vars

\* ---- write_note followed by parse_note, over the Notes it may be given ----
CodecTitles == {<<>>, <<116>>, <<SP, 116>>, <<116, SP, 116>>}
\* tag lists: none, normalized and sorted, and as typed (["w", "#t", "w"])
CodecTags ==
    {<<>>, << <<HASH, 116>> >>, << <<HASH, 116>>, <<HASH, 119>> >>,
     << <<119>>, <<HASH, 116>>, <<119>> >>}
CodecBodies == {<<>>, <<120>>, <<120, NL>>, <<120, NL, NL>>, <<NL, 120>>}
CodecStamps == {NoStamp, Some(FormatMinute(1))}
CodecNotes ==
    {[id |-> MakeId(1, 0), title |-> t, created |-> c, updated |-> u,
      deleted_at |-> d, archived_at |-> a, tags |-> g, body |-> b] :
        t \in CodecTitles, c \in {FormatMinute(0), FormatMinute(1)},
        u \in {FormatMinute(1)}, d \in CodecStamps,
        a \in CodecStamps, g \in CodecTags, b \in CodecBodies}

CodecInit ==
    /\ GenQuiet /\ ThrInit
    /\ active = EmptyDir /\ trash = EmptyDir /\ archive = EmptyDir
    /\ ev = Ev("init", <<>>, {})
    /\ origin = <<>>
    /\ mv = NoMove
    /\ sw = NoSweep
    /\ migrated = <<>>
    /\ \E n \in CodecNotes :
         fx = [op |-> "codec", done |-> FALSE, in |-> n, out |-> n]

\* write_note(&n, dir) and then parse_note of the file it wrote
RoundTrip ==
    /\ fx.op = "codec" /\ ~fx.done
    /\ active' = write_note(active, fx.in)
    /\ fx' = [fx EXCEPT !.done = TRUE,
                        !.out = parse_note(fx.in.id, active'[fx.in.id])]
    /\ UNCHANGED <<trash, archive, ev, origin, mv, sw, migrated,
                   genVars, thrVars>>

CodecNext == RoundTrip
SpecCodec == CodecInit /\ [][CodecNext]_vars

\* ---- the listing table: column widths, shrinking, rows (lib.rs, table.rs) ----
Repeat(c, n) == [i \in 1..n |-> c]
Min2(a, b) == IF a < b THEN a ELSE b
Max2(a, b) == IF a > b THEN a ELSE b

RECURSIVE MaxLenOf(_, _)
\* .iter().map(|x| x.chars().count()).max().unwrap_or(0) over the texts xs
MaxLenOf(xs, i) ==
    IF i > Len(xs) THEN 0 ELSE Max2(Len(xs[i]), MaxLenOf(xs, i + 1))

Ellipsis == <<8230>>
ColSep == <<SP, 124, SP>>

\* pad_field: right-pad by target - plain_len, saturating at 0
pad_field(display, target, plain_len) ==
    display \o Repeat(SP, Max0(target - plain_len))

\* the cut that keeps max_width scalars before the ellipsis
truncate_keeps_width(text, max_width) ==
    IF max_width = 0 THEN <<>>
    ELSE IF Len(text) <= max_width THEN text
    ELSE SubSeq(text, 1, max_width) \o Ellipsis

\* truncate_with_ellipsis: keep max_width - 1 scalars and append the ellipsis
truncate_with_ellipsis(text, max_width) ==
    IF max_width = 0 THEN <<>>
    ELSE IF Len(text) <= max_width THEN text
    ELSE IF max_width = 1 THEN Ellipsis
    ELSE SubSeq(text, 1, max_width - 1) \o Ellipsis

\* display_len: count scalars, skipping from ESC up to and including 'm'.
\* A scalar is skipped when an ESC at or before it has no 'm' in between.
display_count(s, escs) ==
    IF escs = {} THEN Len(s)
    ELSE Cardinality({i \in 1..Len(s) :
            ~\E j \in escs :
                j <= i /\ \A k \in (j + 1)..(i - 1) : s[k] # 109})
display_len(s) == display_count(s, {j \in 1..Len(s) : s[j] = 27})

LabelID == <<73, 68>>
LabelUpdated == <<85, 112, 100, 97, 116, 101, 100>>
LabelCreated == <<67, 114, 101, 97, 116, 101, 100>>
LabelDeleted == <<68, 101, 108, 101, 116, 101, 100>>
LabelArchived == <<65, 114, 99, 104, 105, 118, 101, 100>>
LabelMoved == <<77, 111, 118, 101, 100>>
LabelPreview == <<80, 114, 101, 118, 105, 101, 119>>
LabelTags == <<84, 97, 103, 115>>
\* determine_tz_label: the offset of the local zone, here +00:00
TzLabel == <<43, 48, 48, 58, 48, 48>>

\* time_label: the base label, with " (<offset>)" unless times are relative
time_label(base, relative) ==
    IF relative THEN base ELSE base \o <<SP, 40>> \o TzLabel \o <<41>>
updated_label(relative) == time_label(LabelUpdated, relative)
moved_label(area, relative) ==
    IF area = "trash" THEN time_label(LabelDeleted, relative)
    ELSE IF area = "archive" THEN time_label(LabelArchived, relative)
    ELSE time_label(LabelMoved, relative)

RECURSIVE JoinWith(_, _)
\* tags.join(" ")
JoinWith(ts, sep) ==
    IF ts = <<>> THEN <<>>
    ELSE IF Len(ts) = 1 THEN ts[1]
    ELSE ts[1] \o sep \o JoinWith(Tail(ts), sep)

RECURSIVE WordsFrom(_, _, _)
\* split_whitespace: the runs of scalars between white space
WordsFrom(t, cur, acc) ==
    IF t = <<>> THEN (IF cur = <<>> THEN acc ELSE Append(acc, cur))
    ELSE IF Head(t) \in WhiteSpace
    THEN WordsFrom(Tail(t), <<>>, IF cur = <<>> THEN acc ELSE Append(acc, cur))
    ELSE WordsFrom(Tail(t), Append(cur, Head(t)), acc)
Words(t) == WordsFrom(t, <<>>, <<>>)
TakeWords(ws, n) == SubSeq(ws, 1, Min2(n, Len(ws)))

\* " ago"
Ago == <<SP, 97, 103, 111>>
HourTicks == MinutesPerHour * TicksPerMinute

\* the text format_relative writes for total_hours h and total_days d
RelativeText(h, d) ==
    IF d < 30
    THEN IF d = 0 THEN Decimal(h) \o <<104>> \o Ago
         ELSE IF Max0(h - d * HoursPerDay) > 0
         THEN Decimal(d) \o <<100, SP>>
                  \o Decimal(Max0(h - d * HoursPerDay)) \o <<104>> \o Ago
         ELSE Decimal(d) \o <<100>> \o Ago
    ELSE IF d < 365
    THEN IF d % 30 > 0
         THEN Decimal(d \div 30) \o <<109, 111, SP>>
                  \o Decimal(d % 30) \o <<100>> \o Ago
         ELSE Decimal(d \div 30) \o <<109, 111>> \o Ago
    ELSE IF (d % 365) \div 30 > 0
         THEN Decimal(d \div 365) \o <<121, SP>>
                  \o Decimal((d % 365) \div 30) \o <<109, 111>> \o Ago
         ELSE Decimal(d \div 365) \o <<121>> \o Ago

\* format_relative: the whole hours and days from dt to now, never negative
format_relative(at, now) ==
    RelativeText(Max0((now - at * TicksPerMinute) \div HourTicks),
                 Max0((now - at * TicksPerMinute) \div DayTicks))

\* dt.format("%d%b%y %H:%M"): the wall clock of the stamp's own offset
ShownStamp(p, relative, now) ==
    IF relative THEN format_relative(p.at, now) ELSE FormatLocal(p.at + p.off)

TableStamp(p, ts, relative, now) ==
    IF p.ok THEN ShownStamp(p, relative, now)
    ELSE JoinWith(TakeWords(Words(ts), 2), <<SP>>)

\* format_timestamp_table: the stamp, or the first two words of a text that
\* is no stamp
format_timestamp_table(ts, relative, now) ==
    TableStamp(StampOf(ts), ts, relative, now)

AreaStamp(p, relative, now) ==
    IF p.ok THEN ShownStamp(p, relative, now) ELSE <<>>

\* display_timestamp: in Trash and Archive a text that is no stamp shows
\* as nothing
display_timestamp(area, ts, relative, now) ==
    IF area = "active" THEN format_timestamp_table(ts, relative, now)
    ELSE AreaStamp(StampOf(ts), relative, now)

display_timestamp_moved(area, ts, relative, now) ==
    format_timestamp_table(ts, relative, now)

\* moved_ts: the Deleted or Archived value of a note, if it has one
moved_ts(area, r) ==
    IF area = "trash" THEN r.deleted_at
    ELSE IF area = "archive" THEN r.archived_at
    ELSE NoStamp

\* the `moved` of a row in list_notes_in: the Updated value stands in for a
\* missing Deleted or Archived value
row_moved(area, r) ==
    IF area = "active" THEN NoStamp
    ELSE IF moved_ts(area, r) # NoStamp THEN moved_ts(area, r)
    ELSE Some(r.updated)

Column(rows, f) == [i \in 1..Len(rows) |-> rows[i][f]]
UpdatedCells(rows, relative, now, area) ==
    [i \in 1..Len(rows) |->
        display_timestamp(area, rows[i].updated, relative, now)]
CreatedCells(rows, relative, now) ==
    [i \in 1..Len(rows) |->
        format_timestamp_table(rows[i].created, relative, now)]
MovedWidths(rows, relative, now, area) ==
    [i \in 1..Len(rows) |->
        IF moved_ts(area, rows[i]) = NoStamp THEN <<>>
        ELSE display_timestamp_moved(area, moved_ts(area, rows[i])[1],
                                     relative, now)]
TagsPlain(rows) == [i \in 1..Len(rows) |-> JoinWith(rows[i].tags, <<SP>>)]

\* ColumnWidths::total with the separators left out
total_no_separators(w) ==
    w.id + (IF w.include_created THEN w.created ELSE 0) + w.updated
         + (IF w.include_moved THEN w.moved ELSE 0) + w.preview
         + (IF w.include_tags THEN w.tags ELSE 0)

separator_count(w) ==
    2 + (IF w.include_created THEN 1 ELSE 0)
      + (IF w.include_moved THEN 1 ELSE 0)
      + (IF w.include_tags THEN 1 ELSE 0)

\* ColumnWidths::total: the enabled columns and three scalars per separator
total(w) ==
    w.id + (IF w.include_created THEN w.created ELSE 0) + w.updated
         + (IF w.include_moved THEN w.moved ELSE 0) + w.preview
         + (IF w.include_tags THEN w.tags ELSE 0)
         + separator_count(w) * 3

\* the minimum widths shrink_widths works with
min_widths(relative, area) ==
    [preview |-> 4, tags |-> 4,
     updated |-> Len(updated_label(relative)),
     created |-> Len(time_label(LabelCreated, relative)),
     moved |-> Len(moved_label(area, relative)),
     id |-> Len(LabelID)]

\* the closure reduce: take min(excess, value - min) off the column
reduce(w, f, min, on) ==
    IF w.excess > 0 /\ on
    THEN [w EXCEPT ![f] = @ - Min2(Max0(w[f] - min), w.excess),
                   !.excess = @ - Min2(Max0(w[f] - min), w.excess)]
    ELSE w

WithExcess(w, e) ==
    [id |-> w.id, updated |-> w.updated, created |-> w.created,
     moved |-> w.moved, preview |-> w.preview, tags |-> w.tags,
     include_tags |-> w.include_tags, include_created |-> w.include_created,
     include_moved |-> w.include_moved, excess |-> e]
WithoutExcess(w) ==
    [id |-> w.id, updated |-> w.updated, created |-> w.created,
     moved |-> w.moved, preview |-> w.preview, tags |-> w.tags,
     include_tags |-> w.include_tags, include_created |-> w.include_created,
     include_moved |-> w.include_moved]

\* the reductions taken from the id column first
shrink_steps_id_first(w, m) ==
    reduce(reduce(reduce(reduce(reduce(reduce(w,
        "id", m.id, TRUE),
        "updated", m.updated, TRUE),
        "tags", m.tags, w.include_tags),
        "created", m.created, w.include_created),
        "moved", m.moved, w.include_moved),
        "preview", m.preview, TRUE)

\* the six `if excess > 0 { reduce(...) }` of shrink_widths, in order
shrink_steps(w, m) ==
    reduce(reduce(reduce(reduce(reduce(reduce(w,
        "preview", m.preview, TRUE),
        "moved", m.moved, w.include_moved),
        "created", m.created, w.include_created),
        "tags", m.tags, w.include_tags),
        "updated", m.updated, TRUE),
        "id", m.id, TRUE)

\* shrink_widths: preview, moved, created, tags, updated, id, in that order
shrink_widths(w, term_width, relative, area) ==
    WithoutExcess(shrink_steps(WithExcess(w, total(w) - term_width),
                               min_widths(relative, area)))

TimestampWidth(rows, relative, now, area, inc) ==
    Max2(Max2(Max2(MaxLenOf(UpdatedCells(rows, relative, now, area), 1),
                   Len(updated_label(relative))),
              IF inc THEN Max2(MaxLenOf(CreatedCells(rows, relative, now), 1),
                               Len(time_label(LabelCreated, relative)))
              ELSE 0),
         IF inc THEN Max2(MaxLenOf(MovedWidths(rows, relative, now, area), 1),
                          Len(moved_label(area, relative)))
         ELSE 0)

HasTags(rows) == \E i \in 1..Len(rows) : rows[i].tags # <<>>

NaturalWidths(rows, relative, area, inc, tw, tg) ==
    [id |-> Max2(MaxLenOf(Column(rows, "id"), 1), Len(LabelID)),
     updated |-> tw,
     created |-> IF inc THEN tw ELSE 0,
     moved |-> Max2(IF inc THEN tw ELSE 0, Len(moved_label(area, relative))),
     preview |-> Max2(MaxLenOf(Column(rows, "preview"), 1), Len(LabelPreview)),
     tags |-> IF tg THEN Max2(MaxLenOf(TagsPlain(rows), 1), Len(LabelTags))
              ELSE 0,
     include_tags |-> tg, include_created |-> inc, include_moved |-> inc]

\* column_widths: the widest cell or label of each column, then shrink_widths
column_widths(rows, term_width, relative, now, area) ==
    shrink_widths(
        NaturalWidths(rows, relative, area, area # "active",
                      TimestampWidth(rows, relative, now, area,
                                     area # "active"),
                      area = "active" /\ HasTags(rows)),
        term_width, relative, area)

\* parts.concat(): the pieces one after another
RECURSIVE ConcatParts(_)
ConcatParts(parts) ==
    IF parts = <<>> THEN <<>> ELSE Head(parts) \o ConcatParts(Tail(parts))

\* sep_len: no separator before the first piece pushed, one space after it;
\* `parts` is the list of pieces, so an empty first tag counts as a piece
sep_len(parts) == IF Len(parts) = 0 THEN 0 ELSE 1
SepParts(parts) == IF sep_len(parts) = 1 THEN Append(parts, <<SP>>) ELSE parts

RECURSIVE tags_clamp(_, _, _, _, _)
\* the loop of format_tags_clamped: whole tags while they fit, then one cut
tags_clamp(tags, i, max_width, parts, used) ==
    IF i > Len(tags) THEN [text |-> ConcatParts(parts), len |-> used]
    ELSE IF used + sep_len(parts) + Len(tags[i]) <= max_width
    THEN tags_clamp(tags, i + 1, max_width,
                    Append(SepParts(parts), tags[i]),
                    used + sep_len(parts) + Len(tags[i]))
    ELSE IF Max0(max_width - (used + sep_len(parts))) > 0
    THEN [text |-> ConcatParts(SepParts(parts))
                     \o truncate_with_ellipsis(tags[i],
                          max_width - (used + sep_len(parts))),
          len |-> used + sep_len(parts)
                  + Len(truncate_with_ellipsis(tags[i],
                          max_width - (used + sep_len(parts))))]
    ELSE [text |-> ConcatParts(parts), len |-> used]

format_tags_clamped(tags, max_width) ==
    IF tags = <<>> \/ max_width = 0 THEN [text |-> <<>>, len |-> 0]
    ELSE tags_clamp(tags, 1, max_width, <<>>, 0)

Cell(text, width) ==
    pad_field(truncate_with_ellipsis(text, width), width,
              display_len(truncate_with_ellipsis(text, width)))
TagsCell(tags, width) ==
    pad_field(format_tags_clamped(tags, width).text, width,
              format_tags_clamped(tags, width).len)

\* assemble_row: the padded cells of the enabled columns joined by " | "
assemble_row(id, created, updated, moved, preview, tags, w) ==
    id \o ColSep
       \o (IF w.include_created THEN created \o ColSep ELSE <<>>)
       \o updated \o ColSep
       \o (IF w.include_moved THEN moved \o ColSep ELSE <<>>)
       \o preview
       \o (IF w.include_tags THEN ColSep \o tags ELSE <<>>)

\* format_list_row without colour (NO_COLOR set): truncate, pad, assemble
format_list_row(id, created, updated, moved, preview, tags, w) ==
    assemble_row(Cell(id, w.id), Cell(created, w.created),
                 Cell(updated, w.updated), Cell(moved, w.moved),
                 Cell(preview, w.preview), TagsCell(tags, w.tags), w)

HeaderLine(w, relative, area) ==
    format_list_row(LabelID, time_label(LabelCreated, relative),
                    updated_label(relative), moved_label(area, relative),
                    LabelPreview, <<LabelTags>>, w)
\* the row of a note: each stamp through its display function, then the cells
RowLine(r, w, relative, now, area) ==
    format_list_row(r.id,
                    format_timestamp_table(r.created, relative, now),
                    display_timestamp(area, r.updated, relative, now),
                    IF row_moved(area, r) = NoStamp THEN <<>>
                    ELSE display_timestamp_moved(area, row_moved(area, r)[1],
                                                 relative, now),
                    r.preview, r.tags, w)

\* the lines of list_notes_in: header, rule of '=', one line per note
ListLines(rows, w, relative, now, area) ==
    <<HeaderLine(w, relative, area),
      Repeat(61, display_len(HeaderLine(w, relative, area)))>>
    \o [i \in 1..Len(rows) |-> RowLine(rows[i], w, relative, now, area)]

MaxTermWidth == 70
MaxIdLen == 12
MaxPreviewLen == 20

\* the clock of the listing, and the notes it shows: stamped a day and an
\* hour before, with a Deleted and an Archived value
LayoutNow == AtDay(1, MinutesPerHour * TicksPerMinute + 1)
LayoutTags == {<<>>, <<<<HASH, 97>>>>,
               <<<<HASH, 97, 98, 99, 100, 101>>, <<HASH, 102, 103, 104, 105>>>>}
LayoutRows ==
    {[id |-> Repeat(105, n), created |-> FormatMinute(0),
      updated |-> FormatMinute(0), deleted_at |-> Some(FormatMinute(1)),
      archived_at |-> Some(FormatMinute(1)),
      preview |-> Repeat(120, p), tags |-> g] :
        n \in {9, MaxIdLen}, p \in {3, MaxPreviewLen}, g \in LayoutTags}
\* a note with no Deleted or Archived value, its Updated value a stamp or
\* three words that are none
LayoutShortRows ==
    {[id |-> Repeat(105, 9), created |-> FormatMinute(0),
      updated |-> u, deleted_at |-> NoStamp, archived_at |-> NoStamp,
      preview |-> Repeat(120, 3), tags |-> <<>>] :
        u \in {FormatMinute(0), <<120, SP, SP, 121, SP, 122>>}}
LayoutInputsFor(rel) ==
    {[area |-> a, relative |-> rel, term |-> t, rows |-> rs,
      now |-> LayoutNow] :
        a \in {"active", "trash", "archive"}, t \in 1..MaxTermWidth,
        rs \in UNION {{<<r>>} \cup {<<r, s>> : s \in LayoutShortRows} :
                        r \in LayoutRows}}
LayoutInputs == LayoutInputsFor(TRUE) \cup LayoutInputsFor(FALSE)

LayoutInit ==
    /\ GenQuiet /\ ThrInit
    /\ active = EmptyDir /\ trash = EmptyDir /\ archive = EmptyDir
    /\ ev = Ev("init", <<>>, {})
    /\ origin = <<>>
    /\ mv = NoMove
    /\ sw = NoSweep
    /\ migrated = <<>>
    /\ \E i \in LayoutInputs :
         fx = [op |-> "list", done |-> FALSE, in |-> i, out |-> <<>>]

Rendered(i, w) ==
    [widths |-> w,
     lines |-> ListLines(i.rows, w, i.relative, i.now, i.area)]

\* list_notes_in from column_widths on: the lines handed to the pager
RenderList ==
    /\ fx.op = "list" /\ ~fx.done
    /\ fx' = [fx EXCEPT !.done = TRUE,
                !.out = Rendered(fx.in, column_widths(fx.in.rows, fx.in.term,
                                     fx.in.relative, fx.in.now, fx.in.area))]
    /\ UNCHANGED <<active, trash, archive, ev, origin, mv, sw, migrated,
                   genVars, thrVars>>

LayoutNext == RenderList
SpecLayout == LayoutInit /\ [][LayoutNext]_vars

\* ---- parse_note over the contents a file may hold ----
MaxLines == 3

\* lines a file may hold: "Title: t", "Title:", "Title:\tz\r" (a tab after
\* the key and a carriage return before the newline), "Created: 1",
\* "Updated:2 ",
\* "Deleted: 3", "Archived: 4", "Tags: a, #b," (header lines as write_note
\* leaves them and as an editor may), "Author: x" (a key parse_note does
\* not know), "---", a blank line and "x"
ParseLines ==
    {<<84, 105, 116, 108, 101, 58, 32, 116>>,
     <<84, 105, 116, 108, 101, 58>>,
     <<84, 105, 116, 108, 101, 58, 9, 122, CR>>,
     <<67, 114, 101, 97, 116, 101, 100, 58, 32, 49>>,
     <<85, 112, 100, 97, 116, 101, 100, 58, 50, 32>>,
     <<68, 101, 108, 101, 116, 101, 100, 58, 32, 51>>,
     <<65, 114, 99, 104, 105, 118, 101, 100, 58, 32, 52>>,
     <<84, 97, 103, 115, 58, 32, 97, 44, 32, 35, 98, 44>>,
     <<65, 117, 116, 104, 111, 114, 58, 32, 120>>,
     <<45, 45, 45>>,
     <<>>,
     <<120>>}

RECURSIVE JoinNl(_)
JoinNl(ls) ==
    IF ls = <<>> THEN <<>>
    ELSE IF Len(ls) = 1 THEN Head(ls)
    ELSE Head(ls) \o <<NL>> \o JoinNl(Tail(ls))

\* the lines joined by newlines, with and without a final newline
ParseContents ==
    UNION {{JoinNl(ls), JoinNl(ls) \o <<NL>>} :
              ls \in UNION {[1..n -> ParseLines] : n \in 0..MaxLines}}

ParseInit ==
    /\ GenQuiet /\ ThrInit
    /\ active = EmptyDir /\ trash = EmptyDir /\ archive = EmptyDir
    /\ ev = Ev("init", <<>>, {})
    /\ origin = <<>>
    /\ mv = NoMove
    /\ sw = NoSweep
    /\ migrated = <<>>
    /\ \E raw \in ParseContents :
         fx = [op |-> "parse", done |-> FALSE, in |-> raw,
               out |-> EmptyNote(MakeId(1, 0), <<>>)]

\* parse_note(path, size) of a file holding fx.in
Parse ==
    /\ fx.op = "parse" /\ ~fx.done
    /\ fx' = [fx EXCEPT !.done = TRUE,
                        !.out = parse_note_text(MakeId(1, 0), fx.in)]
    /\ UNCHANGED <<active, trash, archive, ev, origin, mv, sw, migrated,
                   genVars, thrVars>>

ParseNext == Parse
SpecParse == ParseInit /\ [][ParseNext]_vars

\* ---- truncate_with_ellipsis on its own ----
MaxTextLen == 4
MaxTruncWidth == 5

\* scalars of one, two and three UTF-8 bytes: 'x', e-acute, the ellipsis
TruncScalars == {120, 233, 8230}
TruncTexts == UNION {[1..n -> TruncScalars] : n \in 0..MaxTextLen}

TruncInit ==
    /\ GenQuiet /\ ThrInit
    /\ active = EmptyDir /\ trash = EmptyDir /\ archive = EmptyDir
    /\ ev = Ev("init", <<>>, {})
    /\ origin = <<>>
    /\ mv = NoMove
    /\ sw = NoSweep
    /\ migrated = <<>>
    /\ \E t \in TruncTexts, w \in 0..MaxTruncWidth :
         fx = [op |-> "truncate", done |-> FALSE,
               in |-> [text |-> t, width |-> w], out |-> <<>>]

\* truncate_with_ellipsis(text, max_width)
Truncate ==
    /\ fx.op = "truncate" /\ ~fx.done
    /\ fx' = [fx EXCEPT !.done = TRUE,
                !.out = truncate_with_ellipsis(fx.in.text, fx.in.width)]
    /\ UNCHANGED <<active, trash, archive, ev, origin, mv, sw, migrated,
                   genVars, thrVars>>

TruncNext == Truncate
SpecTruncate == TruncInit /\ [][TruncNext]_vars

\* ---- shrink_widths on its own, over the widths column_widths hands it ----
MaxShrinkTerm == 96
MaxExtraWidth == 2

\* the widest label of the timestamp columns an area shows
LabelWidth(area, relative) ==
    IF area = "active" THEN Len(updated_label(relative))
    ELSE Max2(Max2(Len(updated_label(relative)),
                   Len(time_label(LabelCreated, relative))),
              Len(moved_label(area, relative)))

\* a ColumnWidths as column_widths builds it: one width for the timestamp
\* columns, created and moved only outside Active, tags only in Active
NaturalOf(area, relative, id, tw, preview, tags) ==
    [id |-> id, updated |-> tw,
     created |-> IF area # "active" THEN tw ELSE 0,
     moved |-> Max2(IF area # "active" THEN tw ELSE 0,
                    Len(moved_label(area, relative))),
     preview |-> preview,
     tags |-> IF area = "active" THEN tags ELSE 0,
     include_tags |-> area = "active" /\ tags > 0,
     include_created |-> area # "active",
     include_moved |-> area # "active"]

ShrinkInputsFor(area, relative) ==
    {[area |-> area, relative |-> relative, term |-> t,
      w |-> NaturalOf(area, relative, id, LabelWidth(area, relative) + x,
                      p, g)] :
        t \in 1..MaxShrinkTerm, id \in {Len(LabelID), 9},
        x \in {0, MaxExtraWidth}, p \in {Len(LabelPreview), 12},
        g \in IF area = "active" THEN {0, Len(LabelTags), 9} ELSE {0}}

ShrinkInputs ==
    UNION {ShrinkInputsFor(a, r) :
              a \in {"active", "trash", "archive"}, r \in BOOLEAN}

ShrinkInit ==
    /\ GenQuiet /\ ThrInit
    /\ active = EmptyDir /\ trash = EmptyDir /\ archive = EmptyDir
    /\ ev = Ev("init", <<>>, {})
    /\ origin = <<>>
    /\ mv = NoMove
    /\ sw = NoSweep
    /\ migrated = <<>>
    /\ \E i \in ShrinkInputs :
         fx = [op |-> "shrink", done |-> FALSE, in |-> i, out |-> i.w]

\* shrink_widths(widths, term_width, relative, area)
Shrink ==
    /\ fx.op = "shrink" /\ ~fx.done
    /\ fx' = [fx EXCEPT !.done = TRUE,
                !.out = shrink_widths(fx.in.w, fx.in.term, fx.in.relative,
                                      fx.in.area)]
    /\ UNCHANGED <<active, trash, archive, ev, origin, mv, sw, migrated,
                   genVars, thrVars>>

ShrinkNext == Shrink
SpecShrink == ShrinkInit /\ [][ShrinkNext]_vars

\* ---- shared/migrate.rs: importing a source directory as a new batch ----
\* a batch is a directory of migrated/, [name, dir]
BatchIds(batches) == UNION {Ids(batches[k].dir) : k \in 1..Len(batches)}
BatchNames(batches) == {batches[k].name : k \in 1..Len(batches)}

\* the ids of Active and its batches alone
collect_ids_active_only(S, batches) ==
    Ids(S.active) \cup BatchIds(batches)

\* collect_ids_across_areas: Active with its migrated batches, Trash, Archive
collect_ids_across_areas(S, batches) ==
    Ids(S.active) \cup BatchIds(batches) \cup Ids(S.trash) \cup Ids(S.archive)

\* if note.created.trim().is_empty() { note.created = timestamp_string() }
backfill_created(note, now) ==
    IF Trim(note.created) = <<>>
    THEN [note EXCEPT !.created = timestamp_string(now)]
    ELSE note

\* a backfill of updated from the clock instead of from created
backfill_updated_now(note, now) ==
    IF Trim(note.updated) = <<>>
    THEN [note EXCEPT !.updated = timestamp_string(now)]
    ELSE note

\* if note.updated.trim().is_empty() { note.updated = note.created.clone() }
backfill_updated(note, now) ==
    IF Trim(note.updated) = <<>>
    THEN [note EXCEPT !.updated = note.created]
    ELSE note

\* the tail of one pass: reserve final_id, write the note into the batch
migrate_put(acc, note, final, g) ==
    [batch |-> write_note(acc.batch, [note EXCEPT !.id = final]),
     reserved |-> g.reserved \cup {final},
     st |-> g.st, reads |-> g.reads,
     log |-> Append(acc.log, [from |-> note.id, to |-> final])]

\* one pass of the loop: a reserved id is replaced by a generated one
migrate_one(acc, note, dirIds) ==
    IF note.id \in acc.reserved
    THEN migrate_put(acc, note,
             generate_new_id(dirIds, acc.reserved, acc.st, acc.reads).id,
             generate_new_id(dirIds, acc.reserved, acc.st, acc.reads))
    ELSE migrate_put(acc, note, note.id, acc)

RECURSIVE migrate_loop(_, _, _, _, _, _)
\* for (path, size) in files, in the order read_dir gave them
migrate_loop(src, files, k, acc, now, dirIds) ==
    IF k > Len(files) THEN acc
    ELSE migrate_loop(src, files, k + 1,
             migrate_one(acc,
                 backfill_updated(
                     backfill_created(parse_note(files[k], src[files[k]]), now),
                     now),
                 dirIds),
             now, dirIds)

\* "migration-"
MigrationPrefix == <<109, 105, 103, 114, 97, 116, 105, 111, 110, 45>>

RECURSIVE batch_name(_, _)
\* batch_id = format!("migration-{}", short_timestamp()), taken again while
\* a directory of that name exists: one clock reading for each name tried.
\* Under a clock that stands still at a name that is taken the loop does
\* not end (ok is FALSE)
batch_name(names, reads) ==
    IF MigrationPrefix \o short_timestamp(Head(reads)) \notin names
    THEN [ok |-> TRUE, name |-> MigrationPrefix \o short_timestamp(Head(reads)),
          reads |-> RestReads(reads)]
    ELSE IF Len(reads) = 1 THEN [ok |-> FALSE, name |-> <<>>, reads |-> reads]
    ELSE batch_name(names, Tail(reads))

\* what the run returns: the batch under its name, and the lines printed
migrate_result(b, acc) ==
    [ok |-> b.ok, name |-> b.name, batch |-> acc.batch, log |-> acc.log]

\* the loop of migrate_notes into the batch directory b names; the ids are
\* generated from the clock readings after those of the name
migrate_into(b, S, batches, src, files, now) ==
    IF ~b.ok THEN migrate_result(b, [batch |-> EmptyDir, log |-> <<>>])
    ELSE migrate_result(b,
             migrate_loop(src, files, 1,
                 [batch |-> EmptyDir,
                  reserved |-> collect_ids_across_areas(S, batches),
                  st |-> IdState0, reads |-> b.reads, log |-> <<>>],
                 now, Ids(S.active)))

\* migrate_notes: with no note file in the source the run returns before
\* the clock is read and no batch directory is made (ok is FALSE);
\* otherwise a fresh batch directory, then the loop
migrate_notes(S, batches, src, files, now, reads) ==
    IF Len(files) = 0
    THEN migrate_result([ok |-> FALSE, name |-> <<>>],
                        [batch |-> EmptyDir, log |-> <<>>])
    ELSE migrate_into(batch_name(BatchNames(batches), reads),
                      S, batches, src, files, now)

\* the orders read_dir may list a directory in
Orders(S) ==
    {f \in [1..Cardinality(S) -> S] :
        \A i, j \in 1..Cardinality(S) : f[i] = f[j] => i = j}

MaxBatches == 2
MaxSourceNotes == 2

\* ids a file may carry; the first two are ids the generator issues here
MigrateIds == {MakeId(1, 0), MakeId(2, 0), <<10>>}
MigrateFile(c, u) ==
    [title |-> <<SP, 116>>, created |-> c, updated |-> u,
     deleted |-> NoStamp, archived |-> NoStamp, tags |-> <<>>,
     body |-> <<120, NL>>]
DirsOver(ids, files) ==
    UNION {[D -> files] : D \in SUBSET ids}
SourceDirs(P) ==
    {d \in DirsOver(MigrateIds, {MigrateFile(c, u) : c \in P.created,
                                                    u \in P.updated}) :
        Cardinality(DOMAIN d) \in 1..MaxSourceNotes}

\* where the files of the store are before the first migrate
Places == {"none", "active", "trash", "archive"}
PlacedDir(place, where) ==
    [i \in {j \in MigrateIds : place[j] = where} |->
        MigrateFile(FormatMinute(0), FormatMinute(0))]

MigrateInit(P) ==
    /\ GenQuiet /\ ThrInit
    /\ \E place \in [MigrateIds -> P.places] :
         /\ active = PlacedDir(place, "active")
         /\ trash = PlacedDir(place, "trash")
         /\ archive = PlacedDir(place, "archive")
    /\ ev = Ev("init", <<>>, {})
    /\ origin = <<>>
    /\ mv = NoMove
    /\ sw = NoSweep
    /\ fx = NoFx
    /\ migrated = <<>>

Migrated(src, files, now, before, r) ==
    /\ r.ok
    /\ migrated' = Append(migrated, [name |-> r.name, dir |-> r.batch])
    /\ fx' = [op |-> "migrate", done |-> TRUE,
              in |-> [src |-> src, files |-> files, now |-> now,
                      before |-> before],
              out |-> r.log]

\* `qn migrate <path>`: one run of migrate_notes over a source directory
Migrate(P) ==
    /\ Len(migrated) < P.batches
    /\ \E src \in SourceDirs(P), now \in P.nows, reads \in P.reads :
         \E files \in Orders(DOMAIN src) :
            Migrated(src, files, now,
                     Ids(active) \cup Ids(trash) \cup Ids(archive)
                        \cup BatchIds(migrated),
                     migrate_notes(Store, migrated, src, files, now, reads))
    /\ UNCHANGED <<active, trash, archive, ev, origin, mv, sw,
                   genVars, thrVars>>

\* the clock of a run: standing still at 1 or at 2 microseconds, or moving
\* from 1 to 3 between the batch name and the first id
MigrateP ==
    [places |-> Places, created |-> {FormatMinute(0)},
     updated |-> {FormatMinute(1)},
     nows |-> {4}, reads |-> {<<1>>, <<2>>, <<1, 3>>}, batches |-> MaxBatches]
MigrateNext == Migrate(MigrateP)
SpecMigrate == MigrateInit(MigrateP) /\ [][MigrateNext]_vars

\* the same import over source files with and without their timestamps:
\* a value that is absent or blank, one in TIME_FMT, one in the legacy
\* format and one that is no timestamp ("x")
BackfillP ==
    [places |-> {"none", "active"},
     created |-> {EmptyStamp, <<SP>>, FormatMinute(0), LegacyStamp, <<120>>},
     updated |-> {EmptyStamp, FormatMinute(1), <<120>>},
     nows |-> {4, 6}, reads |-> {<<1>>},
     batches |-> 1]
BackfillNext == Migrate(BackfillP)
SpecBackfill == MigrateInit(BackfillP) /\ [][BackfillNext]_vars

\* ---- lib.rs: migrate-ids, every note of Active under a new id ----
\* a copy that leaves the old file in place
copy_file(dir, from, to) ==
    [i \in DOMAIN dir \cup {to} |-> IF i = to THEN dir[from] ELSE dir[i]]

\* fs::rename(&old_path, &new_path): the file as it is, under the new name
rename_file(dir, from, to) ==
    [i \in (DOMAIN dir \ {from}) \cup {to} |->
        IF i = to THEN dir[from] ELSE dir[i]]

\* reserved.insert(new_id); moves.push((path, new_id))
plan_add(acc, old, g) ==
    [reserved |-> g.reserved \cup {g.id}, st |-> g.st, reads |-> g.reads,
     moves |-> Append(acc.moves, [from |-> old, to |-> g.id])]

RECURSIVE plan_moves(_, _, _, _)
\* the first loop of migrate_ids: one generate_new_id per file
plan_moves(files, k, acc, dirIds) ==
    IF k > Len(files) THEN acc
    ELSE plan_moves(files, k + 1,
             plan_add(acc, files[k],
                 generate_new_id(dirIds, acc.reserved, acc.st, acc.reads)),
             dirIds)

RECURSIVE apply_moves(_, _, _)
\* the second loop: the renames, in the order the ids were issued
apply_moves(dir, moves, k) ==
    IF k > Len(moves) THEN dir
    ELSE apply_moves(rename_file(dir, moves[k].from, moves[k].to),
                     moves, k + 1)

MovesDone(dir, moves) == [dir |-> apply_moves(dir, moves, 1), moves |-> moves]

\* migrate_ids over the files of dir as read_dir listed them
migrate_ids(dir, files, reads) ==
    MovesDone(dir,
        plan_moves(files, 1,
            [reserved |-> Ids(dir), st |-> IdState0, reads |-> reads,
             moves |-> <<>>],
            Ids(dir)).moves)

MaxRenameNotes == 3

RenameIds == {MakeId(1, 0), MakeId(2, 0), <<10>>}
RenameFiles ==
    {[MigrateFile(0, 1) EXCEPT !.body = b] : b \in {<<120, NL>>, <<121, NL>>}}
RenameDirs ==
    {d \in DirsOver(RenameIds, RenameFiles) :
        Cardinality(DOMAIN d) <= MaxRenameNotes}
RenameReads == {<<1>>, <<1, 3>>, <<4, 2>>}

RenameInit ==
    /\ GenQuiet /\ ThrInit
    /\ active \in RenameDirs
    /\ trash = EmptyDir /\ archive = EmptyDir
    /\ ev = Ev("init", <<>>, {})
    /\ origin = <<>>
    /\ mv = NoMove
    /\ sw = NoSweep
    /\ fx = NoFx
    /\ migrated = <<>>

Renamed(before, files, r) ==
    /\ active' = r.dir
    /\ fx' = [op |-> "migrate-ids", done |-> TRUE,
              in |-> [before |-> before, files |-> files],
              out |-> r.moves]

\* `qn migrate-ids`, in a process of its own
MigrateIdsRun ==
    /\ \E files \in Orders(Ids(active)), reads \in RenameReads :
         Renamed(active, files, migrate_ids(active, files, reads))
    /\ UNCHANGED <<trash, archive, ev, origin, mv, sw, migrated,
                   genVars, thrVars>>

RenameNext == MigrateIdsRun
SpecRename == RenameInit /\ [][RenameNext]_vars

\* ---- lib.rs: list_tags, the statistics of the tags of Active ----
\* TagStat::default()
TagStat0 == [count |-> 0, first |-> NoStamp, last |-> NoStamp]

\* stats.entry(tag).or_default() / or_insert(TagStat::default())
WithEntry(stats, tag) ==
    [t \in DOMAIN stats \cup {tag} |->
        IF t \in DOMAIN stats THEN stats[t] ELSE TagStat0]

\* Some(f.min(c)) / Some(c)
MinStamp(cur, c) == IF cur = NoStamp THEN Some(c) ELSE Some(Min2(cur[1], c))
\* Some(l.max(u)) / Some(u)
MaxStamp(cur, u) == IF cur = NoStamp THEN Some(u) ELSE Some(Max2(cur[1], u))

\* the body of `for tag in note.tags`
count_tag(e, note) ==
    [count |-> e.count + 1,
     first |-> IF Parses(note.created)
               THEN MinStamp(e.first, parse_timestamp(note.created))
               ELSE e.first,
     last |-> IF Parses(note.updated)
              THEN MaxStamp(e.last, parse_timestamp(note.updated))
              ELSE e.last]

RECURSIVE count_tags(_, _, _)
count_tags(stats, note, k) ==
    IF k > Len(note.tags) THEN stats
    ELSE count_tags([WithEntry(stats, note.tags[k]) EXCEPT
                        ![note.tags[k]] = count_tag(@, note)],
                    note, k + 1)

RECURSIVE count_files(_, _, _, _)
\* for (path, size) in list_note_files(dir)
count_files(dir, files, k, stats) ==
    IF k > Len(files) THEN stats
    ELSE count_files(dir, files, k + 1,
             count_tags(stats, parse_note(files[k], dir[files[k]]), 1))

RECURSIVE with_pinned(_, _, _)
\* for tag in pinned_tags
with_pinned(stats, pinned, k) ==
    IF k > Len(pinned) THEN stats
    ELSE with_pinned(WithEntry(stats, pinned[k]), pinned, k + 1)

\* list_tags up to the table: the statistics of every tag
tag_stats(dir, files, pinned) ==
    with_pinned(count_files(dir, files, 1, <<>>), pinned, 1)

MaxTagNotes == 2
MaxTagMinute == 2

TagIds == {MakeId(1, 0), MakeId(2, 0)}
\* the Tags: line of a file, as write_note, an import or the editor left it
TagLists ==
    {<<>>, << <<HASH, 97>> >>, << <<HASH, 97>>, <<HASH, 97>> >>,
     << <<HASH, 98>>, <<HASH, 97>> >>}
TagFile(c, u, g) ==
    FileOf([id |-> <<>>, title |-> <<116>>, created |-> c, updated |-> u,
            deleted_at |-> NoStamp, archived_at |-> NoStamp, tags |-> g,
            body |-> <<120>>])
TagFiles ==
    {TagFile(FormatMinute(c), FormatMinute(u), g) :
        c \in 0..(MaxTagMinute - 1), u \in 1..MaxTagMinute, g \in TagLists}
TagDirs ==
    {d \in DirsOver(TagIds, TagFiles) : Cardinality(DOMAIN d) <= MaxTagNotes}
\* QUICK_NOTES_PINNED_TAGS, split and normalized
PinnedLists == {<<>>, << <<HASH, 97>>, <<HASH, 112>> >>}

TagsInit ==
    /\ GenQuiet /\ ThrInit
    /\ active \in TagDirs
    /\ trash = EmptyDir /\ archive = EmptyDir
    /\ ev = Ev("init", <<>>, {})
    /\ origin = <<>>
    /\ mv = NoMove
    /\ sw = NoSweep
    /\ fx = NoFx
    /\ migrated = <<>>

\* `qn tags`
ListTags ==
    /\ fx.op = "none"
    /\ \E files \in Orders(Ids(active)), pinned \in PinnedLists :
         fx' = [op |-> "tags", done |-> TRUE,
                in |-> [files |-> files, pinned |-> pinned],
                out |-> tag_stats(active, files, pinned)]
    /\ UNCHANGED <<active, trash, archive, ev, origin, mv, sw, migrated,
                   genVars, thrVars>>

TagsNext == ListTags
SpecTags == TagsInit /\ [][TagsNext]_vars

\* ---- a move as its two file-system steps, with a crash between ----
MaxCrashNotes == 2

CrashP ==
    [maxNotes |-> MaxCrashNotes, maxBody |-> MaxBody,
     titles |-> Titles, texts |-> AddTexts,
     nows |-> {AtDay(0, 1), AtDay(2, 0)}, reads |-> {<<1>>},
     envs |-> {EnvUnset, EnvDays(1)},
     bodies |-> {<<120>>},
     tags |-> {<<>>},
     filters |-> {<<>>},
     lens |-> {1}]

MoveCmds == {"delete", "archive", "undelete", "unarchive"}
SourceOf(cmd) ==
    IF cmd = "undelete" THEN "trash"
    ELSE IF cmd = "unarchive" THEN "archive" ELSE "active"
DestOf(cmd) ==
    IF cmd = "delete" THEN "trash"
    ELSE IF cmd = "archive" THEN "archive" ELSE "active"

\* the source has no file for the id: nothing is written
step_missing(S, id) ==
    [S |-> S, id |-> id, conflict |-> FALSE, found |-> FALSE,
     panic |-> FALSE]

\* the process ended in the panic of clean_trash
step_panicked(S, id) ==
    [S |-> S, id |-> id, conflict |-> FALSE, found |-> FALSE,
     panic |-> TRUE]

step_moved(S, id) ==
    [S |-> S, id |-> id, conflict |-> FALSE, found |-> TRUE,
     panic |-> FALSE]

step_restored(w) ==
    [S |-> w.S, id |-> w.id, conflict |-> w.conflict, found |-> TRUE,
     panic |-> FALSE]

\* move_note_with_timestamp up to its write_note, behind the `exists`
\* test of the command's loop
move_step(S, to, id, now) ==
    IF id \in Ids(S.active) THEN step_moved(move_write(S, to, id, now), id)
    ELSE step_missing(S, id)

\* restore_note up to its write_note, behind its `src.exists()` test
restore_step(S, from, id, reads) ==
    IF id \in Ids(S[from])
    THEN step_restored(restore_write(S, from, id, IdState0, reads))
    ELSE step_missing(S, id)

\* the command on one id, up to and including its write_note; delete and
\* undelete look for the file after their sweep, which left the store cl
write_step(S, cl, cmd, id, env, now, reads) ==
    IF cmd \in {"delete", "undelete"} /\ sweep_panics(env, now)
    THEN step_panicked(S, id)
    ELSE IF cmd = "delete" THEN move_step(cl, "trash", id, now)
    ELSE IF cmd = "archive" THEN move_step(S, "archive", id, now)
    ELSE IF cmd = "undelete" THEN restore_step(cl, "trash", id, reads)
    ELSE restore_step(S, "archive", id, reads)

\* the file-system call after the write
finish_step(S, cmd, id, conflict) ==
    IF cmd \in {"delete", "archive"} THEN move_remove(S, id)
    ELSE restore_finish(S, SourceOf(cmd), id, conflict)

\* the whole command on one id
run_cmd(S, cl, cmd, id, env, now, reads) ==
    IF cmd = "delete" THEN delete_notes(S, cl, <<id>>, <<>>, env, now)
    ELSE IF cmd = "archive" THEN archive_notes(S, <<id>>, now)
    ELSE IF cmd = "undelete"
    THEN undelete_notes(S, cl, <<id>>, env, now, reads)
    ELSE unarchive_notes(S, <<id>>, reads)

MoveIdle == mv.phase \in {"none", "done", "rerun"}

CrashNewOf(P) ==
    /\ MoveIdle
    /\ New(P)

CrashNew == CrashNewOf(CrashP)

\* the write is done and the removal is still to come; or the id was not
\* found and the command has ended
MoveWritten(cmd, id, w) ==
    /\ SetStore(w.S)
    /\ IF w.found
       THEN /\ mv' = [phase |-> "written", cmd |-> cmd, id |-> id,
                      final |-> w.id, conflict |-> w.conflict, pre |-> Store]
            /\ ev' = ev
       ELSE /\ mv' = mv
            /\ ev' = Ev(cmd, IF w.panic THEN Panicked(w.S).out
                             ELSE <<Res(id, "notfound", id)>>,
                        Ids(trash) \ Ids(w.S.trash))

\* a crash can leave a second copy behind, so the number of notes is
\* capped here as well
MoveWriteSwept(P, env, now, cl) ==
    \E cmd \in MoveCmds, id \in KnownIds, reads \in P.reads :
        MoveWritten(cmd, id, write_step(Store, cl, cmd, id, env, now, reads))

MoveWriteOf(P) ==
    /\ MoveIdle
    /\ NoteCount <= P.maxNotes
    /\ \E env \in P.envs, now \in P.nows :
         MoveWriteSwept(P, env, now, sweep(Store, env, now))
    /\ UNCHANGED <<origin, sw, fx, migrated, genVars, thrVars>>

MoveWrite == MoveWriteOf(CrashP)

MoveFinish ==
    /\ mv.phase = "written"
    /\ SetStore(finish_step(Store, mv.cmd, mv.id, mv.conflict))
    /\ ev' = Ev(mv.cmd, <<Res(mv.id, "ok", mv.final)>>, {})
    /\ mv' = [mv EXCEPT !.phase = "done"]
    /\ UNCHANGED <<origin, sw, fx, migrated, genVars, thrVars>>

\* the process dies between the write and the removal of the source
Crash ==
    /\ mv.phase = "written"
    /\ mv' = [mv EXCEPT !.phase = "crashed"]
    /\ UNCHANGED <<active, trash, archive, ev, origin, sw, fx, migrated, genVars, thrVars>>

\* the same command is run again, in a new process
RerunOf(P) ==
    /\ mv.phase = "crashed"
    /\ \E env \in P.envs, now \in P.nows, reads \in P.reads :
         Commit(mv.cmd,
                run_cmd(Store, sweep(Store, env, now), mv.cmd, mv.id, env,
                        now, reads),
                {}, <<mv.id>>)
    /\ mv' = [mv EXCEPT !.phase = "rerun"]
    /\ UNCHANGED <<origin, sw, fx, migrated, genVars, thrVars>>

Rerun == RerunOf(CrashP)

CrashNext == CrashNew \/ MoveWrite \/ MoveFinish \/ Crash \/ Rerun

SpecCrash == Init /\ [][CrashNext]_vars

\* ---- the same moves, and migrate-ids one rename at a time ----
MaxStepNotes == 2

StepsP ==
    [CrashP EXCEPT !.maxNotes = MaxStepNotes, !.nows = {1},
                   !.envs = {EnvUnset}]

RenameIdle == fx.op = "none" \/ fx.done

\* migrate_ids up to the end of its first loop: the renames to do
RenamePlanned(files, moves) ==
    fx' = [op |-> "migrate-ids", done |-> FALSE,
           in |-> [before |-> active, files |-> files, next |-> 1,
                   crashed |-> FALSE],
           out |-> moves]

\* `qn migrate-ids` starts, in a new process (also after a crash)
RenameStart ==
    /\ MoveIdle
    /\ IF RenameIdle THEN TRUE ELSE fx.in.crashed
    /\ active # EmptyDir
    /\ \E files \in Orders(Ids(active)), reads \in StepsP.reads :
         RenamePlanned(files,
             plan_moves(files, 1,
                 [reserved |-> Ids(active), st |-> IdState0, reads |-> reads,
                  moves |-> <<>>],
                 Ids(active)).moves)
    /\ UNCHANGED <<active, trash, archive, ev, origin, mv, sw, migrated,
                   genVars, thrVars>>

\* one fs::rename of the second loop
RenameStep ==
    /\ fx.op = "migrate-ids" /\ ~fx.done /\ ~fx.in.crashed
    /\ active' = rename_file(active, fx.out[fx.in.next].from,
                             fx.out[fx.in.next].to)
    /\ fx' = IF fx.in.next = Len(fx.out) THEN NoFx
              ELSE [fx EXCEPT !.in.next = @ + 1]
    /\ UNCHANGED <<trash, archive, ev, origin, mv, sw, migrated,
                   genVars, thrVars>>

\* the process dies before its next rename
RenameCrash ==
    /\ fx.op = "migrate-ids" /\ ~fx.done /\ ~fx.in.crashed
    /\ fx' = [fx EXCEPT !.in.crashed = TRUE]
    /\ UNCHANGED <<active, trash, archive, ev, origin, mv, sw, migrated,
                   genVars, thrVars>>

StepsNew == RenameIdle /\ CrashNewOf(StepsP)
StepsMoveWrite == RenameIdle /\ MoveWriteOf(StepsP)

StepsNext ==
    \/ StepsNew \/ StepsMoveWrite \/ MoveFinish \/ Crash \/ RerunOf(StepsP)
    \/ RenameStart \/ RenameStep \/ RenameCrash

SpecSteps == Init /\ [][StepsNext]_vars

\* ------------------------------------------------------------------
\* Claims about the generator
\* ------------------------------------------------------------------

\* C1: in one process, whatever the clock returns (advancing, frozen or
\* rewound), every id returned by generate_new_id is strictly greater, as a
\* byte string, than every id returned by an earlier call.
C1_StrictlyIncreasing ==
    \A i \in 1..Len(issued) : \A j \in 1..Len(issued) :
        i < j => LexLess(issued[i], issued[j])

\* C1 witness: several ids were issued and the clock reading behind the last
\* one lies before the epoch, below every earlier reading (a rewound clock).
C1_Witness ==
    /\ gpc = "idle"
    /\ Len(issued) >= 3
    /\ cands # <<>>
    /\ cands[Len(cands)].now < 0
    /\ cands[Len(cands)].id = issued[Len(issued)]

\* C12: when the generator is called twice and the clock returns the same
\* microsecond value both times, the two ids share the 9-character timestamp
\* prefix, the second has a non-empty counter suffix after it, and
\* id1 < id2 as strings.
C12_SameMicrosecond ==
    \A i \in 1..(Len(issued) - 1) :
        (inow[i] > 0 /\ inow[i] = inow[i + 1]) =>
            /\ SubSeq(issued[i + 1], 1, ID_TS_WIDTH)
                 = SubSeq(issued[i], 1, ID_TS_WIDTH)
            /\ Len(issued[i + 1]) > ID_TS_WIDTH
            /\ LexLess(issued[i], issued[i + 1])

\* a Note as the data model has it: its tags normalized, sorted and without
\* duplicates, none holding a comma or a line break, no line break in the title
ValidNote(n) ==
    /\ n.tags = SortDedup(MapNormalize(n.tags))
    /\ \A i \in DOMAIN n.tags : \A k \in DOMAIN n.tags[i] :
          n.tags[i][k] \notin {COMMA, NL}
    /\ \A k \in DOMAIN n.title : n.title[k] # NL

\* C13: for every valid Note n, parse_note of the file write_note(n) wrote
\* has the id, title, created, updated, deleted_at, archived_at and tags of
\* n, and the body of n with its trailing newlines replaced by exactly one.
C13_RoundTrip ==
    (fx.op = "codec" /\ fx.done /\ ValidNote(fx.in)) =>
        /\ fx.out.id = fx.in.id
        /\ fx.out.title = fx.in.title
        /\ fx.out.created = fx.in.created
        /\ fx.out.updated = fx.in.updated
        /\ fx.out.deleted_at = fx.in.deleted_at
        /\ fx.out.archived_at = fx.in.archived_at
        /\ fx.out.tags = fx.in.tags
        /\ fx.out.body = TrimEndNl(fx.in.body) \o <<NL>>

\* C14: write_note writes the tags sorted, without duplicates and
\* #-prefixed, so that parse_note of the file returns the sorted,
\* duplicate-free list of the normalized tags of the Note.
C14_TagsSortedOnDisk ==
    (fx.op = "codec" /\ fx.done) =>
        fx.out.tags = SortDedup(MapNormalize(fx.in.tags))

\* C11: for every finite reserved set and every finite set of ids on disk
\* a call of generate_new_id returns after finitely many retries: a caller
\* inside the loop has been refused at most as many candidates as there are
\* ids reserved or on disk, and it always comes to return.
C11_Returns ==
    /\ [](gpc = "loop" => Len(cands) <= Cardinality(greserved \cup gdir))
    /\ [](gpc = "loop" => <>(gpc = "idle"))

\* C11 witness: a call returned after three refused candidates, some
\* refused for being reserved and some for being on disk.
C11_Witness ==
    /\ gpc = "idle"
    /\ Len(cands) >= 4
    /\ \E i \in 1..(Len(cands) - 1) : cands[i].id \in gdir
    /\ \E i \in 1..(Len(cands) - 1) : cands[i].id \notin gdir

\* ------------------------------------------------------------------
\* Claims about the note store
\* ------------------------------------------------------------------
AllIds == Ids(active) \cup Ids(trash) \cup Ids(archive)
RestoreCmds == {"undelete", "unarchive"}

\* C2: after delete followed by undelete with no id conflict, the note in
\* Active has deleted_at and archived_at unset, and its updated, tags and
\* body are what they were before the delete.
C2_UndeleteRestores ==
    [][\A k \in DOMAIN ev'.out :
         (/\ ev'.cmd = "undelete"
          /\ ev'.out[k].st = "ok"
          /\ ev'.out[k].id = ev'.out[k].req)
         => /\ active'[ev'.out[k].req].deleted = NoStamp
            /\ active'[ev'.out[k].req].archived = NoStamp
            /\ active'[ev'.out[k].req].updated
                 = origin[ev'.out[k].req].file.updated
            /\ active'[ev'.out[k].req].tags = origin[ev'.out[k].req].file.tags
            /\ active'[ev'.out[k].req].body
                 = origin[ev'.out[k].req].file.body]_vars

\* C3: in every state reachable from the empty store by new, add, edit,
\* delete, delete-all, archive, undelete and unarchive, a stored note has at
\* most one of deleted_at / archived_at set, and a note in Active has neither.
C3_StampsByArea ==
    /\ \A i \in Ids(active) :
         active[i].deleted = NoStamp /\ active[i].archived = NoStamp
    /\ \A i \in Ids(trash) :
         trash[i].deleted = NoStamp \/ trash[i].archived = NoStamp
    /\ \A i \in Ids(archive) :
         archive[i].deleted = NoStamp \/ archive[i].archived = NoStamp

\* C4: delete or archive of id X when the destination area already holds a
\* note X leaves that note present and unchanged, and stores the moved note
\* in the destination under a different, newly generated id.
C4_MoveKeepsExisting ==
    [][\A k \in DOMAIN ev'.out :
         (/\ ev'.cmd \in {"delete", "archive"}
          /\ ev'.out[k].st = "ok"
          /\ ev'.out[k].req \in Ids(Store[DestOf(ev'.cmd)]))
         => /\ ev'.out[k].req \in Ids(Store'[DestOf(ev'.cmd)])
            /\ Store'[DestOf(ev'.cmd)][ev'.out[k].req]
                 = Store[DestOf(ev'.cmd)][ev'.out[k].req]
            /\ \E n \in Ids(Store'[DestOf(ev'.cmd)]) :
                 n \notin Ids(Store[DestOf(ev'.cmd)])]_vars

\* C5: undelete or unarchive of id X when Active already holds a note X
\* leaves the active note X unchanged, writes the restored note to Active
\* under a new id different from X with both stamps cleared and the rest of
\* the source file kept, removes the source file, and reports the new id.
C5_RestoreConflict ==
    [][\A k \in DOMAIN ev'.out :
         (/\ ev'.cmd \in RestoreCmds
          /\ ev'.out[k].st = "ok"
          /\ ev'.out[k].req \in Ids(active))
         => /\ ev'.out[k].id # ev'.out[k].req
            /\ ev'.out[k].id \notin Ids(active)
            /\ Ids(active') = Ids(active) \cup {ev'.out[k].id}
            /\ \A i \in Ids(active) : active'[i] = active[i]
            /\ active'[ev'.out[k].id] =
                 [Store[SourceOf(ev'.cmd)][ev'.out[k].req]
                    EXCEPT !.deleted = NoStamp, !.archived = NoStamp]
            /\ ev'.out[k].req \notin Ids(Store'[SourceOf(ev'.cmd)])]_vars

\* C5 witness: the last command restored a note whose id Active already
\* held: Active has both notes, with different bodies, and the source area
\* no longer has the id.
C5_Witness ==
    /\ ev.cmd \in RestoreCmds
    /\ ev.out # <<>>
    /\ ev.out[1].st = "ok"
    /\ ev.out[1].id # ev.out[1].req
    /\ {ev.out[1].id, ev.out[1].req} \subseteq Ids(active)
    /\ active[ev.out[1].id].body # active[ev.out[1].req].body
    /\ ev.out[1].req \notin Ids(Store[SourceOf(ev.cmd)])

\* C6: the id undelete or unarchive generates to resolve a conflict is, at
\* that moment, not the id of any note in Active, Trash or Archive.
C6_FreshAcrossAreas ==
    [][\A k \in DOMAIN ev'.out :
         (/\ ev'.cmd \in RestoreCmds
          /\ ev'.out[k].st = "ok"
          /\ ev'.out[k].id # ev'.out[k].req)
         => ev'.out[k].id \notin AllIds]_vars

\* C7: when Trash and Archive each hold a note X and both are restored, one
\* right after the other, the first keeping X, then the second is stored in
\* Active under a fresh id that no note in the store had, next to X.
C7_TwoRestores ==
    [][(/\ ev.cmd \in RestoreCmds /\ ev'.cmd \in RestoreCmds
        /\ ev.cmd # ev'.cmd
        /\ ev.out # <<>> /\ ev'.out # <<>>
        /\ ev.out[1].st = "ok" /\ ev'.out[1].st = "ok"
        /\ ev.out[1].req = ev'.out[1].req
        /\ ev.out[1].id = ev.out[1].req)
       => /\ ev'.out[1].id # ev'.out[1].req
          /\ ev'.out[1].id \notin AllIds
          /\ {ev'.out[1].req, ev'.out[1].id} \subseteq Ids(active')]_vars

\* the minute the compared timestamp of trash note i was written at
WrittenAt(i) == origin[i].at

\* the timestamp of note i is more than the retention older than the sweep
OlderThanRetention(i) ==
    /\ WrittenAt(i) # NoStamp
    /\ (sw.now - WrittenAt(i)[1] * TicksPerMinute) \div DayTicks
         >= trash_retention_days(sw.env)
    /\ sw.now - WrittenAt(i)[1] * TicksPerMinute
         > trash_retention_days(sw.env) * DayTicks

\* C8: for retention_days > 0 a sweep at `now` removes a trash note exactly
\* when its effective timestamp (deleted_at if present, else updated) is
\* strictly older than now - retention_days, and keeps the others as they
\* are; for retention_days = 0 it removes nothing.  The timestamp is the
\* time the note was stamped at.
C8_SweepExact ==
    sw.ran =>
      /\ \A i \in Ids(trash) : i \in Ids(sw.before) /\ trash[i] = sw.before[i]
      /\ trash_retention_days(sw.env) = 0 => Ids(trash) = Ids(sw.before)
      /\ trash_retention_days(sw.env) > 0 =>
           \A i \in Ids(sw.before) :
             (i \notin Ids(trash)) <=> OlderThanRetention(i)

\* C9: a move of id X that took the plain path, interrupted after its write
\* and before the removal of the source and then run again, ends as the
\* uninterrupted run does: X in the destination area, absent from the source
\* area, no file in any area that the uninterrupted run would not leave,
\* and no other note missing but a trash note (which a sweep may remove).
C9_RerunSameStore ==
    [][(mv.phase = "crashed" /\ mv'.phase = "rerun" /\ ~mv.conflict)
       => /\ mv.id \in Ids(Store'[DestOf(mv.cmd)])
          /\ mv.id \notin Ids(Store'[SourceOf(mv.cmd)])
          /\ Ids(Store'[DestOf(mv.cmd)])
               \subseteq Ids(mv.pre[DestOf(mv.cmd)]) \cup {mv.id}
          /\ Ids(Store'[SourceOf(mv.cmd)])
               \subseteq Ids(mv.pre[SourceOf(mv.cmd)]) \ {mv.id}
          /\ \A a \in {"active", "archive"} :
                Ids(mv.pre[a]) \ {mv.id} \subseteq Ids(Store'[a])]_vars

\* C10: ids handed to concurrent threads of one process are pairwise
\* distinct, and a thread runs the loop body only while it holds the mutex.
C10_ThreadsDistinct ==
    /\ \A a \in tissued : \A b \in tissued : a # b => a.id # b.id
    /\ \A t \in Threads : tpc[t] \in {"read", "write"} => mutex = t

\* C10 witness: both threads have received ids, and one thread is blocked on
\* the lock while the other is between its clock read and its state update.
C10_Witness ==
    /\ \A t \in Threads : \E r \in tissued : r.thread = t
    /\ \E t \in Threads : \E u \in Threads :
         t # u /\ tpc[t] = "wait" /\ tpc[u] = "write" /\ mutex = u

\* the minimum widths of the columns the listing shows, separators not counted
MinColumns(i, w) ==
    total_no_separators(
        [id |-> min_widths(i.relative, i.area).id,
         updated |-> min_widths(i.relative, i.area).updated,
         created |-> min_widths(i.relative, i.area).created,
         moved |-> min_widths(i.relative, i.area).moved,
         preview |-> min_widths(i.relative, i.area).preview,
         tags |-> min_widths(i.relative, i.area).tags,
         include_tags |-> w.include_tags,
         include_created |-> w.include_created,
         include_moved |-> w.include_moved])

LinesFit(f) ==
    \A k \in 1..Len(f.out.lines) : display_len(f.out.lines[k]) <= f.in.term

\* C15 as stated: when the minimum widths of the enabled columns sum to at
\* most terminal_width, every line of the listing (header, rule, rows,
\* separators included) has at most terminal_width characters
C15_LinesFit ==
    (fx.op = "list" /\ fx.done
        /\ MinColumns(fx.in, fx.out.widths) <= fx.in.term)
    => LinesFit(fx)

\* C15 amended: when the minimum widths of the enabled columns plus three
\* characters for each separator between them sum to at most terminal_width,
\* every line of the listing has at most terminal_width characters
C15_LinesFitWithSeparators ==
    (fx.op = "list" /\ fx.done
        /\ MinColumns(fx.in, fx.out.widths)
              + 3 * separator_count(fx.out.widths) <= fx.in.term)
    => LinesFit(fx)

\* a listing that had to be shrunk: a row cut with the ellipsis fills the
\* terminal width exactly
C15_Witness ==
    /\ fx.op = "list" /\ fx.done
    /\ MinColumns(fx.in, fx.out.widths)
          + 3 * separator_count(fx.out.widths) <= fx.in.term
    /\ \E k \in 3..Len(fx.out.lines) :
          /\ Len(fx.out.lines[k]) = fx.in.term
          /\ \E j \in 1..Len(fx.out.lines[k]) : fx.out.lines[k][j] = 8230

LastBatch == migrated[Len(migrated)].dir
Imported == fx.op = "migrate" /\ fx.done

\* C16: after migrate, every imported note's id differs from every id that
\* was in Active, Trash, Archive or an earlier batch before the command and
\* from the id of every other note of the batch; the note keeps its source
\* id exactly when that id was not known to the store when it was imported
C16_ImportedIdsFresh ==
    Imported =>
        /\ Ids(LastBatch) = {fx.out[k].to : k \in 1..Len(fx.out)}
        /\ Len(fx.out) = Cardinality(DOMAIN fx.in.src)
        /\ \A k \in 1..Len(fx.out) :
              /\ fx.out[k].to \notin fx.in.before
              /\ \A j \in 1..(k - 1) : fx.out[j].to # fx.out[k].to
              /\ (fx.out[k].to = fx.out[k].from)
                   <=> (fx.out[k].from \notin
                          fx.in.before
                            \cup {fx.out[j].to : j \in 1..(k - 1)})

\* a second batch in which one note had to be renamed and another kept its
\* id, with ids already in Trash, Archive and the first batch
C16_Witness ==
    /\ Imported /\ Len(migrated) = 2
    /\ \E k \in 1..Len(fx.out) : fx.out[k].to # fx.out[k].from
    /\ \E k \in 1..Len(fx.out) : fx.out[k].to = fx.out[k].from
    /\ Ids(trash) # {} /\ Ids(archive) # {} /\ Ids(migrated[1].dir) # {}
    /\ \E k \in 1..Len(fx.out) :
          fx.out[k].from \in Ids(migrated[1].dir) \cup Ids(trash)

SourceNote(k) == parse_note(fx.out[k].from, fx.in.src[fx.out[k].from])
ImportedNote(k) == parse_note(fx.out[k].to, LastBatch[fx.out[k].to])

\* C17 as stated: a missing Created and a missing Updated are each set to
\* the timestamp of the migration, and a note with both keeps them
C17_BackfillNow ==
    Imported =>
        \A k \in 1..Len(fx.out) :
            /\ ImportedNote(k).created =
                 (IF SourceNote(k).created = EmptyStamp
                  THEN timestamp_string(fx.in.now)
                  ELSE SourceNote(k).created)
            /\ ImportedNote(k).updated =
                 (IF SourceNote(k).updated = EmptyStamp
                  THEN timestamp_string(fx.in.now)
                  ELSE SourceNote(k).updated)

\* C17 amended: a missing Created is set to the timestamp of the migration;
\* a missing Updated is set to the note's created value (its own Created,
\* or the migration timestamp when that is missing too); values present in
\* the source file are kept
C17_BackfillFromCreated ==
    Imported =>
        \A k \in 1..Len(fx.out) :
            /\ ImportedNote(k).created =
                 (IF SourceNote(k).created = EmptyStamp
                  THEN timestamp_string(fx.in.now)
                  ELSE SourceNote(k).created)
            /\ ImportedNote(k).updated =
                 (IF SourceNote(k).updated # EmptyStamp
                  THEN SourceNote(k).updated
                  ELSE IF SourceNote(k).created = EmptyStamp
                  THEN timestamp_string(fx.in.now)
                  ELSE SourceNote(k).created)

\* a batch with a note that had a Created value that is no timestamp and
\* no Updated, and one that had no Created and an Updated value that is no
\* timestamp: the values present were kept as they are
C17_Witness ==
    /\ Imported
    /\ \E k \in 1..Len(fx.out) :
          /\ SourceNote(k).created # EmptyStamp
          /\ ~Parses(SourceNote(k).created)
          /\ SourceNote(k).updated = EmptyStamp
          /\ ImportedNote(k).created = SourceNote(k).created
          /\ ImportedNote(k).updated = SourceNote(k).created
    /\ \E k \in 1..Len(fx.out) :
          /\ SourceNote(k).created = EmptyStamp
          /\ SourceNote(k).updated # EmptyStamp
          /\ ~Parses(SourceNote(k).updated)
          /\ ImportedNote(k).created = timestamp_string(fx.in.now)
          /\ ImportedNote(k).updated = SourceNote(k).updated

\* the ids an area holds when the loop of the command starts
AreaAtLoop(a) == IF a = "trash" THEN Ids(trash) \ ev'.swept ELSE Ids(Store[a])
\* the k-th id asked for has a file in the source area when its turn comes
PresentAt(k) ==
    /\ ev'.asked[k] \in AreaAtLoop(SourceOf(ev'.cmd))
    /\ \A j \in 1..(k - 1) : ev'.asked[j] # ev'.asked[k]
MovedIds == {ev'.asked[k] : k \in {j \in 1..Len(ev'.asked) : PresentAt(j)}}
FinalIds == {ev'.out[k].id : k \in {j \in 1..Len(ev'.out) : ev'.out[j].st = "ok"}}
NewStore == [active |-> active', trash |-> trash', archive |-> archive']

BatchOutcome(from, to) ==
    /\ Len(ev'.out) = Len(ev'.asked)
    /\ \A k \in 1..Len(ev'.asked) :
          /\ ev'.out[k].req = ev'.asked[k]
          /\ ~PresentAt(k) => ev'.out[k].st = "notfound"
          /\ PresentAt(k) =>
                /\ ev'.out[k].st = "ok"
                /\ ev'.out[k].id \in Ids(NewStore[to])
    /\ Ids(NewStore[from]) = AreaAtLoop(from) \ MovedIds
    /\ Ids(NewStore[to]) = AreaAtLoop(to) \cup FinalIds
    /\ \A i \in Ids(NewStore[from]) : NewStore[from][i] = Store[from][i]
    /\ \A i \in Ids(NewStore[to]) \ FinalIds : NewStore[to][i] = Store[to][i]
    /\ \A a \in {"active", "trash", "archive"} \ {from, to} :
          Ids(NewStore[a]) = AreaAtLoop(a)
            /\ \A i \in Ids(NewStore[a]) : NewStore[a][i] = Store[a][i]

\* C18: in delete, archive, undelete and unarchive over a list of ids, an id
\* with no file in the source area is reported not found and changes
\* nothing, the loop goes on to the end of the list, and every id that has a
\* file when its turn comes is moved
C18_MissingIdSkipped ==
    [][ev'.cmd \in MoveCmds
          => BatchOutcome(SourceOf(ev'.cmd), DestOf(ev'.cmd))]_vars

\* an undelete of a missing id followed by an id that Trash holds
C18_Witness ==
    /\ ev.cmd = "undelete" /\ Len(ev.out) = 2
    /\ ev.out[1].st = "notfound" /\ ev.out[2].st = "ok"
    /\ ev.out[2].id \in Ids(active) /\ ev.out[2].req \notin Ids(trash)

\* C19: migrate-ids over an Active directory of n notes leaves n notes in
\* it; every file is unchanged under a new id the generator issued, the new
\* ids differ from each other and from every id Active held before
C19_MigrateIdsRenamesAll ==
    (fx.op = "migrate-ids" /\ fx.done) =>
        /\ Cardinality(Ids(active)) = Cardinality(Ids(fx.in.before))
        /\ Len(fx.out) = Cardinality(Ids(fx.in.before))
        /\ {fx.out[k].from : k \in 1..Len(fx.out)} = Ids(fx.in.before)
        /\ {fx.out[k].to : k \in 1..Len(fx.out)} = Ids(active)
        /\ \A k \in 1..Len(fx.out) :
              /\ active[fx.out[k].to] = fx.in.before[fx.out[k].from]
              /\ fx.out[k].to \notin Ids(fx.in.before)
              /\ Len(fx.out[k].to) >= ID_TS_WIDTH
              /\ \A j \in 1..(k - 1) : fx.out[j].to # fx.out[k].to

\* three notes with different contents renamed, one of them from an id the
\* generator would have issued first
C19_Witness ==
    /\ fx.op = "migrate-ids" /\ fx.done
    /\ Cardinality(Ids(active)) = 3
    /\ MakeId(1, 0) \in Ids(fx.in.before)
    /\ \E i, j \in Ids(active) : active[i] # active[j]

\* the notes of Active that carry tag t, and their parsed timestamps
Carriers(t) ==
    {i \in Ids(active) : t \in Range(parse_note(i, active[i]).tags)}
CreatedOf(t) == {parse_timestamp(active[i].created) : i \in Carriers(t)}
UpdatedOf(t) == {parse_timestamp(active[i].updated) : i \in Carriers(t)}

\* C20: the statistics give every tag the number of notes that carry it
\* (one per note), the least created and the greatest updated of those notes
C20_TagStats ==
    (fx.op = "tags" /\ fx.done) =>
        \A t \in DOMAIN fx.out :
            /\ fx.out[t].count = Cardinality(Carriers(t))
            /\ Carriers(t) # {} =>
                 /\ fx.out[t].first # NoStamp
                 /\ fx.out[t].first[1] \in CreatedOf(t)
                 /\ \A c \in CreatedOf(t) : fx.out[t].first[1] <= c
                 /\ fx.out[t].last # NoStamp
                 /\ fx.out[t].last[1] \in UpdatedOf(t)
                 /\ \A u \in UpdatedOf(t) : fx.out[t].last[1] >= u

\* ------------------------------------------------------------------
\* delete under tag filters (SpecFilter)
\* ------------------------------------------------------------------
\* the note of id in Active carries every one of the filter tags
Carries(id, filters) ==
    \A t \in Range(filters) : t \in Range(parse_note(id, active[id]).tags)

FilteredDelete ==
    \A id \in Ids(active) :
        /\ id \notin Ids(active') =>
               id \in Range(ev'.asked) /\ Carries(id, ev'.filters)
        /\ id \in Range(ev'.asked) /\ ~Carries(id, ev'.filters) =>
               /\ id \in Ids(active') /\ active'[id] = active[id]
               /\ id \in Ids(trash') =>
                      id \in Ids(trash) /\ trash'[id] = trash[id]
               /\ \A k \in DOMAIN ev'.asked :
                      ev'.asked[k] = id => ev'.out[k].st = "skipped"
        /\ id \in Range(ev'.asked) /\ Carries(id, ev'.filters) =>
               id \notin Ids(active') /\ id \in Ids(trash')

\* C21: delete with one or more tag filters moves a listed note to Trash
\* only if the note carries every filter tag; a listed note lacking a
\* filter tag is reported as skipped and stays in Active unchanged, and the
\* command goes on to move the listed notes that carry them all.
C21_FilteredDelete ==
    [][ev'.cmd = "delete" /\ ev'.filters # <<>> => FilteredDelete]_vars

\* a delete under two filter tags skipped one listed note and then moved
\* the next
C21_Witness ==
    /\ ev.cmd = "delete" /\ Len(ev.filters) = 2 /\ Len(ev.out) = 2
    /\ ev.out[1].st = "skipped" /\ ev.out[2].st = "ok"
    /\ ev.out[1].req \in Ids(active) /\ ev.out[2].req \in Ids(trash)

\* ------------------------------------------------------------------
\* the candidates of one generate_new_id call (SpecId)
\* ------------------------------------------------------------------
TsPrefix(id) == SubSeq(id, 1, ID_TS_WIDTH)

\* C22: inside one id-generation call a rejected candidate is added to
\* reserved and the next candidate is built from the same timestamp: all
\* candidates of one call share the same timestamp prefix.
C22_SameTimestampPrefix ==
    \A k \in 1..(Len(cands) - 1) :
        /\ cands[k].id \in greserved
        /\ TsPrefix(cands[k + 1].id) = TsPrefix(cands[k].id)

\* ------------------------------------------------------------------
\* the sweep and timestamps that do not parse (SpecSweep)
\* ------------------------------------------------------------------
\* the text the sweep compares: deleted_at if present, otherwise updated
ComparedStamp(f) == IF f.deleted # NoStamp THEN f.deleted[1] ELSE f.updated
Unparsable(f) == ~Parses(Trim(ComparedStamp(f)))

\* C23: a trash note whose comparison timestamp (deleted_at if present,
\* otherwise updated) cannot be parsed is never removed by the sweep, for
\* any retention_days and any now; the sweep completes without error and
\* still processes the remaining trash notes (with a positive retention,
\* those stamped longer ago than the retention are removed).
C23_UnparsableKept ==
    sw.ran =>
      /\ ~sw.panic
      /\ \A i \in Ids(sw.before) :
           Unparsable(sw.before[i]) =>
               i \in Ids(trash) /\ trash[i] = sw.before[i]
      /\ trash_retention_days(sw.env) > 0 =>
           \A i \in Ids(sw.before) :
               (~Unparsable(sw.before[i]) /\ OlderThanRetention(i))
                   => i \notin Ids(trash)

\* ------------------------------------------------------------------
\* shrink_widths (SpecShrink)
\* ------------------------------------------------------------------
ShrinkOrder == <<"preview", "moved", "created", "tags", "updated", "id">>

\* the column is part of the table
Shown(w, f) ==
    IF f = "moved" THEN w.include_moved
    ELSE IF f = "created" THEN w.include_created
    ELSE IF f = "tags" THEN w.include_tags
    ELSE TRUE

MinOf(f) == min_widths(fx.in.relative, fx.in.area)[f]
GivenUp(f) == fx.in.w[f] - fx.out[f]
InitialExcess == total(fx.in.w) - fx.in.term
Slack(f) == IF Shown(fx.in.w, f) THEN fx.in.w[f] - MinOf(f) ELSE 0

\* what the first k columns of the order gave up, and their slack
RECURSIVE GivenSum(_)
GivenSum(k) ==
    IF k = 0 THEN 0 ELSE GivenUp(ShrinkOrder[k]) + GivenSum(k - 1)

RECURSIVE SlackSum(_)
SlackSum(k) ==
    IF k = 0 THEN 0 ELSE Slack(ShrinkOrder[k]) + SlackSum(k - 1)

\* the excess left when the k-th column of the order has its turn
RemainingAt(k) == InitialExcess - GivenSum(k - 1)

\* C24: shrink_widths reduces the columns of the table in the order
\* preview, moved, created, tags, updated, id; each in turn gives up
\* min(remaining excess, width - minimum), so a column is reduced only when
\* every earlier column is at its minimum; the total reduction is
\* min(initial excess, total slack); no column ends below its minimum; and
\* with a natural total of at most terminal_width no width changes.
C24_ShrinkOrder ==
    (fx.op = "shrink" /\ fx.done) =>
      /\ \A k \in 1..Len(ShrinkOrder) :
           /\ GivenUp(ShrinkOrder[k]) =
                 IF Shown(fx.in.w, ShrinkOrder[k]) /\ RemainingAt(k) > 0
                 THEN Min2(RemainingAt(k), Slack(ShrinkOrder[k]))
                 ELSE 0
           /\ GivenUp(ShrinkOrder[k]) > 0 =>
                 \A j \in 1..(k - 1) :
                     Shown(fx.in.w, ShrinkOrder[j]) =>
                         fx.out[ShrinkOrder[j]] = MinOf(ShrinkOrder[j])
           /\ Shown(fx.in.w, ShrinkOrder[k]) =>
                 fx.out[ShrinkOrder[k]] >= MinOf(ShrinkOrder[k])
      /\ GivenSum(Len(ShrinkOrder)) =
            Min2(Max0(InitialExcess), SlackSum(Len(ShrinkOrder)))
      /\ InitialExcess <= 0 => fx.out = fx.in.w
      /\ fx.out.include_tags = fx.in.w.include_tags
      /\ fx.out.include_created = fx.in.w.include_created
      /\ fx.out.include_moved = fx.in.w.include_moved

\* a trash listing too wide for the terminal: preview and moved went down
\* to their minimum, created gave up a part of its slack, and the columns
\* after it kept their width
C24_Witness ==
    /\ fx.op = "shrink" /\ fx.done /\ fx.in.area = "trash"
    /\ fx.in.w.preview > 4 /\ fx.out.preview = 4
    /\ fx.in.w.moved > MinOf("moved") /\ fx.out.moved = MinOf("moved")
    /\ fx.out.created < fx.in.w.created /\ fx.out.created > MinOf("created")
    /\ fx.out.updated = fx.in.w.updated /\ fx.out.id = fx.in.w.id

\* ------------------------------------------------------------------
\* truncate_with_ellipsis (SpecTruncate)
\* ------------------------------------------------------------------
\* the first n characters of text (none when n <= 0)
FirstChars(text, n) == [i \in 1..n |-> text[i]]

\* the result for a text longer than w: w characters, the first w - 1 of
\* text and then one ellipsis
CutTo(text, w, out) ==
    /\ Len(out) = w
    /\ out = FirstChars(text, w - 1) \o <<8230>>

\* C25 as stated: for every text and every width w >= 0,
\* truncate_with_ellipsis returns text unchanged when it has at most w
\* characters, and otherwise a string of exactly w characters: the first
\* w - 1 characters of text followed by a single ellipsis.
C25_Truncate ==
    (fx.op = "truncate" /\ fx.done) =>
        IF Len(fx.in.text) <= fx.in.width THEN fx.out = fx.in.text
        ELSE CutTo(fx.in.text, fx.in.width, fx.out)

\* C25 amended: the same for every width w >= 1; for w = 0 the result is
\* the empty string, with no ellipsis.
C25_TruncatePositiveWidth ==
    (fx.op = "truncate" /\ fx.done) =>
        IF Len(fx.in.text) <= fx.in.width THEN fx.out = fx.in.text
        ELSE IF fx.in.width = 0 THEN fx.out = <<>>
        ELSE CutTo(fx.in.text, fx.in.width, fx.out)

\* a text cut after a scalar of several bytes: characters were dropped and
\* the result ends with the only ellipsis it holds
C25_Witness ==
    /\ fx.op = "truncate" /\ fx.done
    /\ fx.in.width >= 2 /\ Len(fx.in.text) > fx.in.width
    /\ fx.in.text[fx.in.width - 1] = 233
    /\ 8230 \notin Range(fx.in.text)
    /\ Len(fx.out) = fx.in.width
    /\ fx.out[fx.in.width] = 8230

\* ------------------------------------------------------------------
\* parse_note on any content (SpecParse)
\* ------------------------------------------------------------------
SepAt(raw, i) ==
    i + 4 <= Len(raw) /\ raw[i] = NL /\ raw[i + 1] = 45 /\ raw[i + 2] = 45
        /\ raw[i + 3] = 45 /\ raw[i + 4] = NL
HasSeparator(raw) == \E i \in 1..Len(raw) : SepAt(raw, i)
FirstSeparator(raw) ==
    CHOOSE i \in 1..Len(raw) :
        SepAt(raw, i) /\ \A j \in 1..(i - 1) : ~SepAt(raw, j)

\* the lines up to and including the first separator line
HeaderLinesOf(raw) == lines_of(SubSeq(raw, 1, FirstSeparator(raw) + 4))

HasKey(ls, key) == \E k \in 1..Len(ls) : starts_with(ls[k], key)
\* what follows the key on the last line that starts with it
LastValue(ls, key) ==
    LET k == CHOOSE i \in 1..Len(ls) :
                 /\ starts_with(ls[i], key)
                 /\ \A j \in (i + 1)..Len(ls) : ~starts_with(ls[j], key)
    IN  SubSeq(ls[k], Len(key) + 1, Len(ls[k]))

TextField(ls, key) ==
    IF HasKey(ls, key) THEN Trim(LastValue(ls, key)) ELSE <<>>
StampField(ls, key) ==
    IF HasKey(ls, key) THEN <<Trim(LastValue(ls, key))>> ELSE <<>>
TagsField(ls) ==
    IF HasKey(ls, KeyTags)
    THEN MapNormalize(SplitComma(LastValue(ls, KeyTags), <<>>))
    ELSE <<>>

ParsedFrom(note, ls, body) ==
    /\ note.title = TextField(ls, KeyTitle)
    /\ note.created = TextField(ls, KeyCreated)
    /\ note.updated = TextField(ls, KeyUpdated)
    /\ note.deleted_at = StampField(ls, KeyDeleted)
    /\ note.archived_at = StampField(ls, KeyArchived)
    /\ note.tags = TagsField(ls)
    /\ note.body = body

\* C26: parse_note returns a Note for every content.  Without a "---"
\* separator line the whole content is the body, title, created and updated
\* are empty, there are no tags and both stamps are unset.  With one, each
\* field is what follows its key on a header line (the last such line),
\* empty or unset when no line has the key; lines with other keys are
\* ignored.
C26_ParseNeverFails ==
    (fx.op = "parse" /\ fx.done) =>
        /\ fx.out.id = MakeId(1, 0)
        /\ IF HasSeparator(fx.in)
           THEN ParsedFrom(fx.out, HeaderLinesOf(fx.in),
                           SubSeq(fx.in, FirstSeparator(fx.in) + 5,
                                  Len(fx.in)))
           ELSE ParsedFrom(fx.out, <<>>, fx.in)

\* a content without separator whose first line is "Title: t": parsed, the
\* title is empty and the body is the whole content
C26_Witness ==
    /\ fx.op = "parse" /\ fx.done
    /\ ~HasSeparator(fx.in)
    /\ starts_with(fx.in, KeyTitle \o <<SP, 116>>)
    /\ fx.out.title = <<>>
    /\ fx.out.deleted_at = NoStamp /\ fx.out.tags = <<>>
    /\ fx.out.body = fx.in

\* ------------------------------------------------------------------
\* add and edit (SpecEdit)
\* ------------------------------------------------------------------
\* a is a proper prefix of b
Extends(a, b) == Len(a) < Len(b) /\ SubSeq(b, 1, Len(a)) = a

\* the note parse_note reads from the file of id, before and after the step
NoteBefore(id) == parse_note(id, active[id])
NoteAfter(id) == parse_note(id, active'[id])

\* the header fields of the note are what they were, but for updated
HeaderKept(id) ==
    /\ NoteAfter(id).title = NoteBefore(id).title
    /\ NoteAfter(id).created = NoteBefore(id).created
    /\ NoteAfter(id).tags = NoteBefore(id).tags
    /\ NoteAfter(id).deleted_at = NoteBefore(id).deleted_at
    /\ NoteAfter(id).archived_at = NoteBefore(id).archived_at

\* the ids the command reports as changed
Changed == {ev'.out[k].req : k \in {j \in DOMAIN ev'.out : ev'.out[j].st = "ok"}}

OthersKept ==
    /\ Ids(active') = Ids(active)
    /\ \A j \in Ids(active) \ Changed : active'[j] = active[j]
    /\ trash' = trash /\ archive' = archive

ChangedInPlace(k) ==
    /\ ev'.out[k].req \in Ids(active) /\ ev'.out[k].req \in Ids(active')
    /\ ev'.out[k].id = ev'.out[k].req
    /\ HeaderKept(ev'.out[k].req)
    /\ ev'.cmd = "add" => Extends(NoteBefore(ev'.out[k].req).body,
                                  NoteAfter(ev'.out[k].req).body)

\* C27: add (append) and edit on an existing active note keep the note in
\* Active under the same id and change only its body (add appends to it)
\* and its updated timestamp: created, title, tags and both stamps are
\* unchanged, and no other note in any area is modified.  For edit this
\* is the step that follows the editor: the note is compared with what
\* the editor left in the file.
C27_EditInPlace ==
    [][ev'.cmd \in {"add", "edit"}
          => /\ \A k \in DOMAIN ev'.out :
                   ev'.out[k].st = "ok" => ChangedInPlace(k)
             /\ OthersKept]_vars

\* an add to a tagged note while Trash holds another note: the body grew
\* and updated is later than created
C27_Witness ==
    /\ ev.cmd = "add" /\ ev.out # <<>> /\ ev.out[1].st = "ok"
    /\ Ids(trash) # {}
    /\ active[ev.out[1].req].tags # <<>>
    /\ parse_timestamp(active[ev.out[1].req].updated)
          > parse_timestamp(active[ev.out[1].req].created)
    /\ Len(active[ev.out[1].req].body) > 2

\* ------------------------------------------------------------------
\* the sweep and the other areas (SpecKeep)
\* ------------------------------------------------------------------
Asked(id) == id \in Range(ev'.asked)

\* a note of Archive is still there, unless unarchive was asked for it
ArchiveKept(id) ==
    \/ /\ id \in Ids(archive')
       /\ archive'[id] = archive[id] \/ (ev'.cmd = "archive" /\ Asked(id))
    \/ ev'.cmd = "unarchive" /\ Asked(id)

\* a note of Active is still there, or the command moved it to Trash or
\* Archive, where it still is
ActiveKept(id) ==
    \/ id \in Ids(active') /\ active'[id] = active[id]
    \/ ev'.cmd \in {"delete", "delete-all"} /\ Asked(id) /\ id \in Ids(trash')
    \/ ev'.cmd = "archive" /\ Asked(id) /\ id \in Ids(archive')

\* C28: the retention sweep removes files only from Trash.  Whatever the
\* command, the clock and retention_days, every note of Archive and every
\* note of Active is still in the store after the command (in place, or
\* where the command moved it), however old its timestamps are, and the
\* ids the sweep removed were ids of Trash.
C28_SweepOnlyTrash ==
    [][/\ \A id \in Ids(archive) : ArchiveKept(id)
       /\ \A id \in Ids(active) : ActiveKept(id)
       /\ ev'.swept \subseteq Ids(trash)]_vars

\* a sweep removed a note of Trash while Archive holds a note as old
C28_Witness ==
    /\ ev.swept # {}
    /\ \E i \in Ids(archive) :
         /\ archive[i].updated = FormatMinute(0)
         /\ archive[i].archived = Some(FormatMinute(0))

\* ------------------------------------------------------------------
\* the points between two file-system actions (SpecSteps)
\* ------------------------------------------------------------------
\* the note a move is about, as it was before the command
MovedNote == mv.pre[SourceOf(mv.cmd)][mv.id]

InSource ==
    /\ mv.id \in Ids(Store[SourceOf(mv.cmd)])
    /\ Store[SourceOf(mv.cmd)][mv.id] = MovedNote
InDestination ==
    /\ mv.final \in Ids(Store[DestOf(mv.cmd)])
    /\ Store[DestOf(mv.cmd)][mv.final].title = MovedNote.title
    /\ Store[DestOf(mv.cmd)][mv.final].body = MovedNote.body

\* the k-th file of a migrate-ids run is under its old or its new name
RenamedOrNot(k) ==
    \/ /\ fx.out[k].from \in Ids(active)
       /\ active[fx.out[k].from] = fx.in.before[fx.out[k].from]
    \/ /\ fx.out[k].to \in Ids(active)
       /\ active[fx.out[k].to] = fx.in.before[fx.out[k].from]

\* C29: at every point between two file-system actions of delete, archive,
\* undelete, unarchive and migrate-ids, also when the process died there,
\* the note being moved is a file of its source area or of its destination
\* area; no reachable state has it in neither.
C29_NeverInNeither ==
    /\ mv.phase \in {"written", "crashed"} => InSource \/ InDestination
    /\ (fx.op = "migrate-ids" /\ ~fx.done) =>
          \A k \in 1..Len(fx.out) : RenamedOrNot(k)

\* migrate-ids died after its first rename and before its second, in a
\* store where an undelete that died after its write was run again
C29_Witness ==
    /\ fx.op = "migrate-ids" /\ ~fx.done /\ fx.in.crashed
    /\ fx.in.next = 2 /\ Len(fx.out) = 2
    /\ mv.phase = "rerun" /\ mv.cmd = "undelete"

\* ---- undelete long after the delete: old and recent trash together ----
MaxExpireNotes == 2
LateDay == 4

\* notes made in the last minute of 1969, and deleted in that minute, in the
\* first of 1970 and three days on
ExpireNewP ==
    [ConflictP EXCEPT !.maxNotes = MaxExpireNotes, !.bodies = {<<120>>},
                      !.nows = {AtDay(-1, DayTicks - 1)}]
ExpireP ==
    [ExpireNewP EXCEPT !.nows = {AtDay(-1, DayTicks - 1), AtDay(0, 1),
                                 AtDay(LateDay - 1, 1)}]
ExpireLateP ==
    [ExpireP EXCEPT !.nows = {AtDay(LateDay, 0)},
                    !.envs = {EnvUnset, EnvDays(0), EnvDays(1)},
                    !.lens = {0, 1, 2}]

\* undelete, with the clock and the environment it ran under kept in sw
UndeleteTimedSwept(P, env, now, cl) ==
    \E ids \in IdLists(P), reads \in P.reads :
        /\ UndeleteDone(undelete_notes(Store, cl, ids, env, now, reads),
                        IF ids = <<>> THEN {} ELSE Swept(Store, cl), ids)
        /\ sw' = [ran |-> ids # <<>>, env |-> env, now |-> now,
                  before |-> EmptyDir, panic |-> sweep_panics(env, now)]

UndeleteTimed(P) ==
    /\ \E env \in P.envs, now \in P.nows :
         UndeleteTimedSwept(P, env, now, sweep(Store, env, now))
    /\ UNCHANGED <<mv, fx, migrated, genVars, thrVars>>

ExpireNext ==
    \/ New(ExpireNewP) \/ Delete(ExpireP) \/ UndeleteTimed(ExpireLateP)

SpecExpire == Init /\ [][ExpireNext]_vars

\* "older than the retention" as the statement means it: the trash note i
\* was moved to Trash longer ago than the retention of a command run at
\* `now` with a positive retention.  The age is counted from the instant of
\* the move (origin), not from the text of the Deleted header; what
\* clean_trash itself compares is Expired, which parses that text
PastCutoff(i, env, now) ==
    /\ trash_retention_days(env) > 0
    /\ now - origin[i].at[1] * TicksPerMinute
         > trash_retention_days(env) * DayTicks

\* what the command left in Active: every note that was there is there
\* unchanged, and every new file is a trash note the command restored,
\* asked for under `req` (compared apart from deleted_at and archived_at)
Unstamped(file) == [file EXCEPT !.deleted = NoStamp, !.archived = NoStamp]

RestoredFrom(i, req) ==
    /\ req \in Ids(trash)
    /\ Unstamped(active'[i]) = Unstamped(trash[req])

ActiveFrame ==
    /\ \A i \in Ids(active) : i \in Ids(active') /\ active'[i] = active[i]
    /\ \A i \in Ids(active') \ Ids(active) :
         \E j \in DOMAIN ev'.out :
            /\ ev'.out[j].st = "ok"
            /\ ev'.out[j].id = i
            /\ RestoredFrom(i, ev'.out[j].req)

\* C30: undelete sweeps before it restores: with a positive retention, an
\* asked id whose trash note was deleted longer ago than the retention is
\* reported as not found every time it is asked for, the note is gone from
\* Trash, and it is not in Active: Active holds the notes it held and the
\* notes restored for the other ids.
C30_SweepBeforeRestore ==
    [][ev'.cmd = "undelete" =>
         \A k \in DOMAIN ev'.asked :
            (/\ ev'.asked[k] \in Ids(trash)
             /\ PastCutoff(ev'.asked[k], sw'.env, sw'.now))
            => /\ \A j \in DOMAIN ev'.out :
                     ev'.out[j].req = ev'.asked[k]
                     => ev'.out[j].st = "notfound"
               /\ ev'.out[k].req = ev'.asked[k]
               /\ ev'.asked[k] \notin Ids(trash')
               /\ ActiveFrame]_vars

====
